---- MODULE Spec2Model ----
(***************************************************************************)
(* Model of the rule-based Conversation Quality Analyzer                   *)
(* (backend/app/services/caregiver_training.py) and of the keyword safety  *)
(* classifier (backend/app/agents/tools.py), and of the live chat loop     *)
(* (backend/app/main.py) with its safety monitor                           *)
(* (backend/app/services/safety_monitor.py), of the monitor's inactivity   *)
(* check, and of the retries and the escalation of unacknowledged          *)
(* reminders (backend/app/services/reminder_service.py).                   *)
(*                                                                         *)
(* Text is modelled as TLA+ strings, which TLC treats as character         *)
(* sequences (Len, SubSeq and \o work on them), so every substring test,   *)
(* count, split and case conversion below is computed on the characters.   *)
(***************************************************************************)
EXTENDS Integers, Sequences, FiniteSets, TLC

(***************************************************************************)
(* Bounds of the model.                                                    *)
(***************************************************************************)
MaxLines == 3

MaxSeed == 1

MaxParts == 2

MaxCalls == 2

\* the hours of clock time followed by the inactivity check
MaxHours == 32

\* the conversations a patient starts while the inactivity check is followed
MaxConversations == 2

\* the inactivity alerts created while the inactivity check is followed
MaxAlerts == 2

\* the minutes of clock time followed after a reminder is due
MaxMinutes == 6

MaxMessages == 2

(***************************************************************************)
(* Python str primitives.                                                  *)
(***************************************************************************)
Min(a, b) == IF a <= b THEN a ELSE b

Max(a, b) == IF a >= b THEN a ELSE b

CharAt(s, i) == SubSeq(s, i, i)

DropFirst(s, n) == SubSeq(s, n + 1, Len(s))

UpperChars == "ABCDEFGHIJKLMNOPQRSTUVWXYZ"

LowerChars == "abcdefghijklmnopqrstuvwxyz"

DigitChars == "0123456789"

\* position of the one-character string c in s, 0 when absent (str.find + 1)
IndexOf[s \in STRING, c \in STRING] ==
    IF \E i \in 1..Len(s) : CharAt(s, i) = c
    THEN CHOOSE i \in 1..Len(s) :
            /\ CharAt(s, i) = c
            /\ \A j \in 1..(i - 1) : CharAt(s, j) # c
    ELSE 0

\* the characters of s as a set of one-character strings
CharSet(s) == {CharAt(s, i) : i \in 1..Len(s)}

\* the lower-case letter of every upper-case letter
ToLower == [c \in CharSet(UpperChars) |-> CharAt(LowerChars, IndexOf[UpperChars, c])]

LowerChar(c) == IF c \in DOMAIN ToLower THEN ToLower[c] ELSE c

\* str.lower()
Lower[s \in STRING] ==
    IF Len(s) = 0 THEN ""
    ELSE IF Len(s) = 1 THEN LowerChar(s)
    ELSE Lower[SubSeq(s, 1, Len(s) \div 2)] \o Lower[DropFirst(s, Len(s) \div 2)]

\* str.isspace() for one character
IsSpace(c) == c \in {" ", "\n", "\t", "\r", "\f"}

\* a character matched by \w in a Python str pattern
WordChars == CharSet(LowerChars) \cup CharSet(UpperChars) \cup CharSet(DigitChars) \cup {"_"}

IsWordChar(c) == c \in WordChars

\* str.strip()
Strip[s \in STRING] ==
    IF \A i \in 1..Len(s) : IsSpace(CharAt(s, i))
    THEN ""
    ELSE LET first == CHOOSE i \in 1..Len(s) :
                        /\ ~IsSpace(CharAt(s, i))
                        /\ \A j \in 1..(i - 1) : IsSpace(CharAt(s, j))
             last  == CHOOSE i \in 1..Len(s) :
                        /\ ~IsSpace(CharAt(s, i))
                        /\ \A j \in (i + 1)..Len(s) : IsSpace(CharAt(s, j))
         IN  SubSeq(s, first, last)

\* str.startswith(prefix)
StartsWith[s \in STRING, p \in STRING] == Len(p) <= Len(s) /\ SubSeq(s, 1, Len(p)) = p

\* the Python test  p in s
Contains[s \in STRING, p \in STRING] ==
    \E i \in 1..(Len(s) - Len(p) + 1) : SubSeq(s, i, i + Len(p) - 1) = p

\* the position of the first occurrence of p in s, 0 when there is none
Find[s \in STRING, p \in STRING] ==
    IF Contains[s, p]
    THEN CHOOSE i \in 1..(Len(s) - Len(p) + 1) :
            /\ SubSeq(s, i, i + Len(p) - 1) = p
            /\ \A j \in 1..(i - 1) : SubSeq(s, j, j + Len(p) - 1) # p
    ELSE 0

\* str.count(p): number of non-overlapping occurrences, scanning left to right
Count[s \in STRING, p \in STRING] ==
    IF Find[s, p] = 0 THEN 0
    ELSE 1 + Count[DropFirst(s, Find[s, p] + Len(p) - 1), p]

\* str.split(sep) for a one-character separator
Split[s \in STRING, sep \in STRING] ==
    IF IndexOf[s, sep] = 0 THEN <<s>>
    ELSE <<SubSeq(s, 1, IndexOf[s, sep] - 1)>> \o Split[DropFirst(s, IndexOf[s, sep]), sep]

\* len(str.split()): number of maximal runs of non-whitespace characters
WordCount[s \in STRING] ==
    Cardinality({i \in 1..Len(s) :
                    /\ ~IsSpace(CharAt(s, i))
                    /\ (i = 1 \/ IsSpace(CharAt(s, i - 1)))})

\* re.search(r'\b' + phrase + r'\b', s) for a phrase that starts and ends
\* with a word character
SearchWord[s \in STRING, p \in STRING] ==
    \E i \in 1..(Len(s) - Len(p) + 1) :
        /\ SubSeq(s, i, i + Len(p) - 1) = p
        /\ (i = 1 \/ ~IsWordChar(CharAt(s, i - 1)))
        /\ (i + Len(p) - 1 = Len(s) \/ ~IsWordChar(CharAt(s, i + Len(p))))

\* any(phrase in s for phrase in phrases)
ContainsAny[s \in STRING, phrases \in Seq(STRING)] ==
    \E k \in 1..Len(phrases) : Contains[s, phrases[k]]

(***************************************************************************)
(* Python float arithmetic (IEEE-754 binary64, round to nearest, ties to   *)
(* even).  A float is held exactly as a fixed-point number of six limbs in *)
(* base 4096:  <<i, f1, ..., f5>>  is  i + f1/4096 + ... + f5/4096^5, a     *)
(* multiple of 2^-60.  Every float the analyzer computes is 0 or lies in   *)
(* [2^-8, 2), where all binary64 values are such multiples.  An operation  *)
(* computes the exact result in limbs and rounds it to 53 significant bits.*)
(***************************************************************************)
Base == 2^12

Limbs == Seq(Int)

\* propagate carries (and borrows) towards the most significant limb
Carry[L \in Limbs] ==
    IF Len(L) = 1 THEN L
    ELSE Carry[[SubSeq(L, 1, Len(L) - 1) EXCEPT ![Len(L) - 1] = @ + L[Len(L)] \div Base]]
             \o <<L[Len(L)] % Base>>

\* the largest power of two not above n, for n >= 1
Pow2Floor[n \in Nat] == IF n < 2 THEN 1 ELSE 2 * Pow2Floor[n \div 2]

\* the weight, in units of the sixth limb, of the last of the 53 significant
\* bits of the exact value L
UlpUnit[L \in Limbs] ==
    IF L[1] >= 1 THEN 256 * Pow2Floor[L[1]]
    ELSE IF L[2] >= 16 THEN Pow2Floor[L[2]] \div 16
    ELSE 1

\* twice a remainder D against the unit u: 1 above, -1 below, 0 equal
CompareDoubled[D \in Limbs, u \in Nat] ==
    IF D[1] > u THEN 1
    ELSE IF D[1] < u THEN -1
    ELSE IF \E k \in 2..Len(D) : D[k] # 0 THEN 1
    ELSE 0

\* round L to the nearest multiple of u units of the sixth limb, a tie to
\* the even multiple
RoundTo[L \in Limbs, u \in Nat] ==
    LET base == [SubSeq(L, 1, 6) EXCEPT ![6] = @ - (L[6] % u)]
        cmp  == CompareDoubled[
                    Carry[[k \in 1..(Len(L) - 5) |->
                              2 * (IF k = 1 THEN L[6] % u ELSE L[k + 5])]], u]
        odd  == (L[6] \div u) % 2 = 1
    IN  IF cmp = 1 \/ (cmp = 0 /\ odd)
        THEN Carry[[base EXCEPT ![6] = @ + u]]
        ELSE base

\* round an exact value of six or more limbs to the nearest binary64
Round53[L \in Limbs] ==
    IF \A k \in 1..Len(L) : L[k] = 0 THEN SubSeq(L, 1, 6)
    ELSE RoundTo[L, UlpUnit[L]]

\* n limbs of the fraction r/den for 0 <= r < den, then a sticky limb
LongDiv[r \in Nat, den \in Nat, n \in Nat] ==
    IF r = 0 THEN [k \in 1..(n + 1) |-> 0]
    ELSE IF n = 0 THEN <<1>>
    ELSE <<(r * Base) \div den>> \o LongDiv[(r * Base) % den, den, n - 1]

\* the float denoted by the decimal literal num/den
Lit[num \in Nat, den \in Nat] == Round53[<<num \div den>> \o LongDiv[num % den, den, 7]]

\* float(n) for a small non-negative int
FromInt(n) == <<n, 0, 0, 0, 0, 0>>

FZero == FromInt(0)

\* a + b; adding 0.0 is exact
FAdd[a \in Limbs, b \in Limbs] ==
    IF a = FZero THEN b
    ELSE IF b = FZero THEN a
    ELSE Round53[Carry[[k \in 1..6 |-> a[k] + b[k]]]]

\* a - b for a >= b
FSub[a \in Limbs, b \in Limbs] ==
    IF b = FZero THEN a
    ELSE Round53[Carry[[k \in 1..6 |-> a[k] - b[k]]]]

\* n * a for an int n (converted to float exactly) and a float a
FMulInt[n \in Nat, a \in Limbs] ==
    IF a = FZero \/ n = 0 THEN FZero
    ELSE Round53[Carry[[k \in 1..6 |-> n * a[k]]]]

\* sum of a[j] * b[m + 1 - j] over j in i..6 with m + 1 - j in 1..6
SumProducts[a \in Limbs, b \in Limbs, m \in Nat, i \in Nat] ==
    IF i > 6 \/ i > m THEN 0
    ELSE (IF m + 1 - i <= 6 THEN a[i] * b[m + 1 - i] ELSE 0) + SumProducts[a, b, m, i + 1]

\* a * b
FMul[a \in Limbs, b \in Limbs] ==
    IF a = FZero \/ b = FZero THEN FZero
    ELSE Round53[Carry[[m \in 1..11 |-> SumProducts[a, b, m, 1]]]]

\* a < b for limbs of the same length
LexLess[a \in Limbs, b \in Limbs] ==
    IF a = <<>> THEN FALSE
    ELSE IF Head(a) # Head(b) THEN Head(a) < Head(b)
    ELSE LexLess[Tail(a), Tail(b)]

FLess[a \in Limbs, b \in Limbs] == LexLess[a, b]

FLeq[a \in Limbs, b \in Limbs] == ~LexLess[b, a]

\* Python min(a, b) and max(a, b): the first argument wins when they are equal
FMin[a \in Limbs, b \in Limbs] == IF FLess[b, a] THEN b ELSE a

FMax[a \in Limbs, b \in Limbs] == IF FLess[a, b] THEN b ELSE a

\* the integer nearest to the exact value M, a tie to the even one
NearestInt[M \in Limbs] ==
    LET cmp == IF M[2] > 2048 THEN 1
               ELSE IF M[2] < 2048 THEN -1
               ELSE IF \E k \in 3..6 : M[k] # 0 THEN 1
               ELSE 0
    IN  IF cmp = 1 \/ (cmp = 0 /\ M[1] % 2 = 1) THEN M[1] + 1 ELSE M[1]

\* round(x, 2), as the integer h of hundredths: the result of round is the
\* float nearest h/100, h being the exact value of x times 100 rounded half
\* to even
Round2[x \in Limbs] == NearestInt[Carry[[k \in 1..6 |-> 100 * x[k]]]]

(***************************************************************************)
(* ConversationAnalyzer._parse_conversation                                *)
(***************************************************************************)
\* the generic labels with the patient's words tested first
SpeakerOfLabelPatientFirst(speaker_text) ==
    IF Contains[speaker_text, "patient"] \/ Contains[speaker_text, "elder"] THEN "patient"
    ELSE IF Contains[speaker_text, "caregiver"] \/ Contains[speaker_text, "family"]
        THEN "caregiver"
    ELSE "unknown"

\* the speaker of the generic format "Speaker: text"
SpeakerOfLabel(speaker_text) ==
    IF Contains[speaker_text, "caregiver"] \/ Contains[speaker_text, "family"] THEN "caregiver"
    ELSE IF Contains[speaker_text, "patient"] \/ Contains[speaker_text, "elder"] THEN "patient"
    ELSE "unknown"

\* the body of the loop for one line that is non-empty after strip()
ParseLine[line \in STRING, caregiver_name \in STRING, patient_name \in STRING] ==
    LET speaker_text == Lower[Strip[SubSeq(line, 1, IndexOf[line, ":"] - 1)]]
        turn(speaker, text) ==
            [speaker |-> speaker, text |-> text, text_lower |-> Lower[text]]
    IN  IF StartsWith[Lower[line], Lower[caregiver_name] \o ":"]
        THEN turn("caregiver", Strip[DropFirst(line, Len(caregiver_name) + 1)])
        ELSE IF StartsWith[Lower[line], Lower[patient_name] \o ":"]
        THEN turn("patient", Strip[DropFirst(line, Len(patient_name) + 1)])
        ELSE IF Contains[line, ":"]
        THEN turn(SpeakerOfLabel(speaker_text), Strip[DropFirst(line, IndexOf[line, ":"])])
        ELSE turn("unknown", line)

\* the loop over lines: a line that is empty after strip() is skipped
ParseLines[lines \in Seq(STRING), caregiver_name \in STRING, patient_name \in STRING] ==
    IF lines = <<>> THEN <<>>
    ELSE (IF Strip[Head(lines)] = "" THEN <<>>
          ELSE <<ParseLine[Strip[Head(lines)], caregiver_name, patient_name]>>)
         \o ParseLines[Tail(lines), caregiver_name, patient_name]

\* the turns the parser builds
Turn == [speaker : STRING, text : STRING, text_lower : STRING]

\* a turn for every line, the blank ones included
ParseEveryLine(conversation_text, caregiver_name, patient_name) ==
    LET lines == Split[Strip[conversation_text], "\n"]
    IN  [k \in 1..Len(lines) |-> ParseLine[Strip[lines[k]], caregiver_name, patient_name]]

_parse_conversation(conversation_text, caregiver_name, patient_name) ==
    ParseLines[Split[Strip[conversation_text], "\n"], caregiver_name, patient_name]

\* every turn, whoever speaks
TurnsOfAnySpeaker(turns) == turns

\* [t for t in turns if t["speaker"] == "caregiver"]
CaregiverTurns(turns) == SelectSeq(turns, LAMBDA t : t.speaker = "caregiver")

(***************************************************************************)
(* CarePhilosophy.PRINCIPLES and the principle scorers.  The evidence      *)
(* markers of the source (check mark, cross, half circle) are written      *)
(* [+], [-] and [~].                                                       *)
(***************************************************************************)
PrincipleKeys ==
    <<"ritual_over_stimulation", "emotion_over_accuracy",
      "presence_over_performance", "short_steady_repeatable">>

\* the same weight for every principle
EqualWeight(key) == Lit[25, 100]

\* PRINCIPLES[key]["weight"]
Weight(key) ==
    CASE key = "ritual_over_stimulation"   -> Lit[25, 100]
      [] key = "emotion_over_accuracy"     -> Lit[30, 100]
      [] key = "presence_over_performance" -> Lit[25, 100]
      [] key = "short_steady_repeatable"   -> Lit[20, 100]

\* the clamp without its upper limit
ClampFromBelow(score) == FMax[Lit[0, 1], score]

\* min(1.0, max(0.0, score))
Clamp(score) == FMin[Lit[1, 1], FMax[Lit[0, 1], score]]

\* sum(1 for turn in turns if pred(turn))
CountTurns(turns, pred(_)) == Len(SelectSeq(turns, pred))

\* no turn at all
NoEarlyTurns(turns) == <<>>

\* caregiver_turns[:3]
FirstThree(turns) == SubSeq(turns, 1, Min(3, Len(turns)))

_score_ritual_consistency(caregiver_turns) ==
    IF caregiver_turns = <<>>
    THEN [score |-> FromInt(0), evidence |-> <<"No caregiver statements detected">>]
    ELSE
    LET first_turn == caregiver_turns[1].text_lower
        greeting   == ContainsAny[first_turn, <<"good morning", "good afternoon", "hello", "hi">>]
        structure_words == <<"today", "time for", "visit", "together">>
        structure  == \E k \in 1..Len(FirstThree(caregiver_turns)) :
                          ContainsAny[caregiver_turns[k].text_lower, structure_words]
        last_turn  == caregiver_turns[Len(caregiver_turns)].text_lower
        closing    == ContainsAny[last_turn, <<"thank you", "see you", "tomorrow", "next time">>]
        s0 == Lit[7, 10]
        s1 == IF greeting THEN FAdd[s0, Lit[1, 10]] ELSE FSub[s0, Lit[1, 10]]
        s2 == IF structure THEN FAdd[s1, Lit[1, 10]] ELSE s1
        s3 == IF closing THEN FAdd[s2, Lit[1, 10]] ELSE FSub[s2, Lit[1, 10]]
    IN  [score    |-> Clamp(s3),
         evidence |-> <<IF greeting THEN "[+] Started with a greeting"
                                    ELSE "[-] Missing greeting at start">>
                      \o (IF structure THEN <<"[+] Used structure words early">> ELSE <<>>)
                      \o <<IF closing THEN "[+] Included proper closing"
                                      ELSE "[-] Missing clear closing">>]

validation_phrases ==
    <<"i understand", "that sounds", "i hear you", "that must",
      "it seems", "you feel", "that's important", "i can see">>

correction_phrases ==
    <<"no, actually", "that's not right", "remember when", "don't you remember",
      "try to remember", "you forgot", "that's wrong", "no, it was">>

_score_emotional_validation(caregiver_turns, all_turns) ==
    LET validation_count ==
            CountTurns(caregiver_turns, LAMBDA t : ContainsAny[t.text_lower, validation_phrases])
        correction_count ==
            CountTurns(caregiver_turns, LAMBDA t : ContainsAny[t.text_lower, correction_phrases])
        s0 == Lit[7, 10]
        s1 == IF validation_count > 0
              THEN FAdd[s0, FMin[Lit[2, 10], FMulInt[validation_count, Lit[1, 10]]]]
              ELSE FSub[s0, Lit[15, 100]]
        s2 == IF correction_count > 0
              THEN FSub[s1, FMin[Lit[3, 10], FMulInt[correction_count, Lit[15, 100]]]]
              ELSE FAdd[s1, Lit[1, 10]]
    IN  [score    |-> Clamp(s2),
         evidence |-> <<IF validation_count > 0
                        THEN "[+] Used " \o ToString(validation_count) \o " validation phrase(s)"
                        ELSE "[-] No emotional validation detected",
                        IF correction_count > 0
                        THEN "[-] Corrected or tested " \o ToString(correction_count)
                                 \o " time(s) - AVOID THIS"
                        ELSE "[+] Did not correct or test memory">>]

\* the testing patterns without the first one
testing_patterns_after_first ==
    <<"what year", "who was", "when did", "try to", "can you recall">>

\* the phrases of testing_patterns, each searched between \b anchors
testing_patterns ==
    <<"do you remember", "what year", "who was", "when did", "try to", "can you recall">>

invitation_phrases ==
    <<"if you'd like", "would you like", "we can", "it's okay",
      "no need to", "take your time", "when you're ready">>

\* re.search(pattern, text) for some pattern of testing_patterns
MatchesTestingPattern(text_lower) ==
    \E k \in 1..Len(testing_patterns) : SearchWord[text_lower, testing_patterns[k]]

_score_no_pressure(caregiver_turns) ==
    LET testing_count ==
            CountTurns(caregiver_turns, LAMBDA t : MatchesTestingPattern(t.text_lower))
        invitation_count ==
            CountTurns(caregiver_turns, LAMBDA t : ContainsAny[t.text_lower, invitation_phrases])
        s0 == Lit[8, 10]
        s1 == IF testing_count > 0
              THEN FSub[s0, FMin[Lit[4, 10], FMulInt[testing_count, Lit[15, 100]]]]
              ELSE FAdd[s0, Lit[1, 10]]
        s2 == IF invitation_count > 0
              THEN FAdd[s1, FMin[Lit[15, 100], FMulInt[invitation_count, Lit[5, 100]]]]
              ELSE s1
    IN  [score    |-> Clamp(s2),
         evidence |-> <<IF testing_count > 0
                        THEN "[-] Asked " \o ToString(testing_count)
                                 \o " testing question(s) - AVOID THIS"
                        ELSE "[+] No testing or memory quizzes">>
                      \o (IF invitation_count > 0
                          THEN <<"[+] Used " \o ToString(invitation_count) \o " gentle invitation(s)">>
                          ELSE <<>>)]

\* sum(len(turn["text"].split()) for turn in caregiver_turns)
TotalWords[turns \in Seq(Turn)] ==
    IF turns = <<>> THEN 0 ELSE WordCount[Head(turns).text] + TotalWords[Tail(turns)]

\* f"{total / count:.1f}": the quotient to one decimal, half to even.  The
\* quotient of two ints is a tie at one decimal only when it is a multiple
\* of 1/4 (then the float is exact) or count is a multiple of 20.
Format1f(total, count) ==
    LET n == 10 * total
        t == n \div count
        r == n % count
        tenths == IF 2 * r > count \/ (2 * r = count /\ t % 2 = 1) THEN t + 1 ELSE t
    IN  ToString(tenths \div 10) \o "." \o ToString(tenths % 10)

_score_brevity_structure(caregiver_turns) ==
    IF caregiver_turns = <<>>
    THEN [score |-> FromInt(0), evidence |-> <<>>]
    ELSE
    LET total_words == TotalWords[caregiver_turns]
        count       == Len(caregiver_turns)
        \* avg_words <= 12 and avg_words <= 18: total/count is compared with an
        \* int, and the float quotient is on the same side of it as the exact one
        ideal       == total_words <= 12 * count
        acceptable  == total_words <= 18 * count
        avg         == Format1f(total_words, count)
        long_statements == CountTurns(caregiver_turns, LAMBDA t : WordCount[t.text] > 25)
        s0 == Lit[7, 10]
        s1 == IF ideal THEN FAdd[s0, Lit[2, 10]]
              ELSE IF acceptable THEN FAdd[s0, Lit[1, 10]]
              ELSE FSub[s0, Lit[1, 10]]
        s2 == IF long_statements > 0
              THEN FSub[s1, FMin[Lit[2, 10], FMulInt[long_statements, Lit[5, 100]]]]
              ELSE FAdd[s1, Lit[1, 10]]
    IN  [score    |-> Clamp(s2),
         evidence |-> <<IF ideal
                        THEN "[+] Average " \o avg \o " words per statement (ideal: <=12)"
                        ELSE IF acceptable
                        THEN "[~] Average " \o avg \o " words per statement (acceptable: <=18)"
                        ELSE "[-] Average " \o avg \o " words per statement (too long: >18)",
                        IF long_statements > 0
                        THEN "[-] " \o ToString(long_statements)
                                 \o " statement(s) over 25 words - break these up"
                        ELSE "[+] All statements appropriately sized">>]

_score_principle(turns, principle, stage) ==
    LET caregiver_turns == CaregiverTurns(turns)
    IN  CASE principle = "ritual_over_stimulation"   -> _score_ritual_consistency(caregiver_turns)
          [] principle = "emotion_over_accuracy"     -> _score_emotional_validation(caregiver_turns, turns)
          [] principle = "presence_over_performance" -> _score_no_pressure(caregiver_turns)
          [] principle = "short_steady_repeatable"   -> _score_brevity_structure(caregiver_turns)
          [] OTHER -> [score |-> Lit[5, 10], evidence |-> <<>>]

(***************************************************************************)
(* ConversationAnalyzer._detect_violations                                 *)
(***************************************************************************)
\* a violation that is always numbered as the first turn
ViolationOfFirstTurn(severity, type, i, turn, issue, correction) ==
    [severity |-> severity, type |-> type, turn_number |-> 1,
     text |-> SubSeq(turn.text, 1, Min(100, Len(turn.text))),
     issue |-> issue, correction |-> correction]

Violation(severity, type, i, turn, issue, correction) ==
    [severity |-> severity, type |-> type, turn_number |-> i,
     text |-> SubSeq(turn.text, 1, Min(100, Len(turn.text))),
     issue |-> issue, correction |-> correction]

\* the violations appended for caregiver turn number i (enumerate index + 1)
TurnViolations(turn, i) ==
    (IF ContainsAny[turn.text_lower, <<"do you remember", "try to remember", "don't you remember">>]
     THEN <<Violation("high", "memory_testing", i, turn,
                      "Testing memory creates anxiety and shame",
                      "Instead ask: 'What did you like about that?' or 'Tell me more about that'")>>
     ELSE <<>>)
    \o
    (IF ContainsAny[turn.text_lower, <<"no, actually", "that's not right", "that's wrong">>]
     THEN <<Violation("high", "correction", i, turn,
                      "Correcting creates conflict and distress",
                      "Validate their emotion: 'That sounds important to you' or 'I can see why you'd think that'")>>
     ELSE <<>>)
    \o
    (IF Count[turn.text_lower, "or"] >= 2
     THEN <<Violation("medium", "too_many_choices", i, turn,
                      "Multiple choices increase confusion",
                      "Simplify to one option or no choice: 'It's time for lunch' vs 'Do you want lunch now or later?'")>>
     ELSE <<>>)
    \o
    (IF Count[turn.text_lower, "?"] >= 3
     THEN <<Violation("medium", "too_many_questions", i, turn,
                      "Multiple questions create pressure",
                      "One question at a time, or statements instead: 'I'm curious about your garden' vs asking multiple garden questions")>>
     ELSE <<>>)

RECURSIVE ViolationsFrom(_, _)
ViolationsFrom(caregiver_turns, i) ==
    IF i > Len(caregiver_turns) THEN <<>>
    ELSE TurnViolations(caregiver_turns[i], i) \o ViolationsFrom(caregiver_turns, i + 1)

\* a detector that scans the turns of every speaker
DetectViolationsInAllTurns(turns, stage) == ViolationsFrom(turns, 1)

_detect_violations(turns, stage) == ViolationsFrom(CaregiverTurns(turns), 1)

(***************************************************************************)
(* ConversationAnalyzer._identify_strengths                                *)
(***************************************************************************)
AllStrengths ==
    <<"Used emotional validation", "Gave permission to go slow", "Avoided testing memory",
      "Kept statements short and clear", "Emphasized presence and togetherness">>

\* The slot of a str in the hash table of a small set (8 slots).  CPython
\* derives it from hash(str), which is keyed by the hash seed the interpreter
\* process draws at start-up; the multiplier is odd, so distinct strings of
\* AllStrengths get distinct slots.
HashSlot(x, seed) ==
    LET k == CHOOSE j \in 1..Len(AllStrengths) : AllStrengths[j] = x
        m == <<1, 7, 3, 5>>[(seed % 4) + 1]
    IN  (k * m + (seed \div 4)) % 8

\* the items in the slots from slot on, in the order of the slots
FromSlot[items \in Seq(STRING), seed \in Nat, slot \in Nat] ==
    IF slot > 7 THEN <<>>
    ELSE (IF \E j \in 1..Len(items) : HashSlot(items[j], seed) = slot
          THEN <<CHOOSE x \in {items[j] : j \in 1..Len(items)} : HashSlot(x, seed) = slot>>
          ELSE <<>>)
         \o FromSlot[items, seed, slot + 1]

\* list(set(items)): the distinct items in the iteration order of the set
ListOfSet[items \in Seq(STRING), seed \in Nat] == FromSlot[items, seed, 0]

_identify_strengths(turns, stage, seed) ==
    LET caregiver_turns == CaregiverTurns(turns)
        has(pred(_))    == \E k \in 1..Len(caregiver_turns) : pred(caregiver_turns[k])
        validation      == has(LAMBDA t : ContainsAny[t.text_lower,
                                              <<"that sounds", "i understand", "i hear you">>])
        gentle          == has(LAMBDA t : Contains[t.text_lower, "take your time"])
        testing_found   == has(LAMBDA t : Contains[t.text_lower, "remember"] /\ Contains[t.text, "?"])
        short_statements == CountTurns(caregiver_turns, LAMBDA t : WordCount[t.text] <= 12)
        \* len(short_statements) / len(caregiver_turns) > 0.7 if caregiver_turns else False
        mostly_short    == IF caregiver_turns # <<>>
                           THEN 10 * short_statements > 7 * Len(caregiver_turns)
                           ELSE FALSE
        presence        == has(LAMBDA t : ContainsAny[t.text_lower,
                                              <<"i'm here", "together", "with you">>])
        strengths ==
               (IF validation        THEN <<AllStrengths[1]>> ELSE <<>>)
            \o (IF gentle            THEN <<AllStrengths[2]>> ELSE <<>>)
            \o (IF ~testing_found    THEN <<AllStrengths[3]>> ELSE <<>>)
            \o (IF mostly_short      THEN <<AllStrengths[4]>> ELSE <<>>)
            \o (IF presence          THEN <<AllStrengths[5]>> ELSE <<>>)
    IN  ListOfSet[strengths, seed]

(***************************************************************************)
(* ConversationAnalyzer._generate_recommendations.  A recommendation is    *)
(* identified by priority, category and title; its description, action and *)
(* example are fixed texts that go with the title.                         *)
(***************************************************************************)
Rec(priority, category, title) == [priority |-> priority, category |-> category, title |-> title]

_get_principle_recommendation(principle, stage) ==
    CASE principle = "ritual_over_stimulation"   -> Rec("high", "structure", "Create Predictable Ritual")
      [] principle = "emotion_over_accuracy"     -> Rec("immediate", "communication", "Validate Feelings, Not Facts")
      [] principle = "presence_over_performance" -> Rec("high", "approach", "Remove All Pressure")
      [] principle = "short_steady_repeatable"   -> Rec("medium", "structure", "Keep It Brief")

RECURSIVE LowScoreRecsInclusive(_, _, _)
\* the loop with the test  score <= 0.6
LowScoreRecsInclusive(scores, stage, k) ==
    IF k > Len(PrincipleKeys) THEN <<>>
    ELSE (IF FLeq[scores[PrincipleKeys[k]].score, Lit[6, 10]]
          THEN <<_get_principle_recommendation(PrincipleKeys[k], stage)>>
          ELSE <<>>)
         \o LowScoreRecsInclusive(scores, stage, k + 1)

RECURSIVE LowScoreRecs(_, _, _)
\* the loop over scores.items(), in the insertion order of PRINCIPLES
LowScoreRecs(scores, stage, k) ==
    IF k > Len(PrincipleKeys) THEN <<>>
    ELSE (IF FLess[scores[PrincipleKeys[k]].score, Lit[6, 10]]
          THEN <<_get_principle_recommendation(PrincipleKeys[k], stage)>>
          ELSE <<>>)
         \o LowScoreRecs(scores, stage, k + 1)

StopTestingMemory == Rec("immediate", "critical", "Stop Testing Memory")

StructureYourVisit == Rec("medium", "improvement", "Structure Your Visit")

\* every violation counted as one of high severity
AnySeverity(violations) == violations

\* [v for v in violations if v["severity"] == "high"]
HighSeverity(violations) == SelectSeq(violations, LAMBDA v : v.severity = "high")

\* the general recommendation appended whatever the list holds
AlwaysGeneral(recommendations) == recommendations \o <<StructureYourVisit>>

\* if not recommendations: recommendations.append(...)
AddGeneralIfNeeded(recommendations) ==
    IF recommendations = <<>> THEN <<StructureYourVisit>> ELSE recommendations

_generate_recommendations(turns, scores, violations, stage) ==
    LET by_score == LowScoreRecs(scores, stage, 1)
        high_severity == HighSeverity(violations)
        by_violation == IF violations # <<>> /\ high_severity # <<>>
                        THEN <<StopTestingMemory>> \o by_score
                        ELSE by_score
        by_stage ==
            IF stage = "early"
            THEN by_violation \o <<Rec("high", "stage_specific", "Early Stage: Affirm Competence")>>
            ELSE IF stage = "moderate"
            THEN by_violation \o <<Rec("high", "stage_specific", "Moderate Stage: Rhythm & Repetition")>>
            ELSE IF stage = "late"
            THEN by_violation \o <<Rec("high", "stage_specific", "Late Stage: Presence Over Words")>>
            ELSE by_violation
    IN  AddGeneralIfNeeded(by_stage)

(***************************************************************************)
(* ConversationAnalyzer._calculate_overall_score and _score_to_grade.      *)
(* overall_score is held as the integer h of hundredths: round(total, 2)   *)
(* is the float nearest h/100 and the literals 0.90 ... 0.60 are the       *)
(* floats nearest 90/100 ... 60/100, so the comparisons are those of h.    *)
(***************************************************************************)
RECURSIVE WeightedTotal(_, _)
\* total after the first k principles: total = 0; total += score * weight
WeightedTotal(principle_scores, k) ==
    IF k = 0 THEN FZero
    ELSE FAdd[WeightedTotal(principle_scores, k - 1),
              FMul[principle_scores[PrincipleKeys[k]].score, Weight(PrincipleKeys[k])]]

_calculate_overall_score(principle_scores) ==
    Round2[WeightedTotal(principle_scores, Len(PrincipleKeys))]

_score_to_grade(score) ==
    IF score >= 90 THEN "A"
    ELSE IF score >= 80 THEN "B"
    ELSE IF score >= 70 THEN "C"
    ELSE IF score >= 60 THEN "D"
    ELSE "F"

(***************************************************************************)
(* CarePhilosophy.IDEAL_SESSION and ConversationAnalyzer._analyze_phases.  *)
(* A phase entry keeps its name, duration and purpose (the example and the *)
(* key points are fixed texts that go with the name).                      *)
(***************************************************************************)
\* the phases that have a detector
PhasesWithDetector ==
    <<[name |-> "Arrival",              duration |-> "0-1 min", purpose |-> "Predictability & Safety"],
      [name |-> "Gentle Orientation",   duration |-> "1-2 min", purpose |-> "Orientation Without Testing"],
      [name |-> "Familiar Thread",      duration |-> "2-4 min", purpose |-> "Memory Without Recall Pressure"],
      [name |-> "Emotional Reflection", duration |-> "4-5 min", purpose |-> "Identity Support"],
      [name |-> "Consistent Closing",   duration |-> "6-7 min", purpose |-> "Trust & Continuity"]>>

IDEAL_SESSION_phases ==
    <<[name |-> "Arrival",              duration |-> "0-1 min", purpose |-> "Predictability & Safety"],
      [name |-> "Gentle Orientation",   duration |-> "1-2 min", purpose |-> "Orientation Without Testing"],
      [name |-> "Familiar Thread",      duration |-> "2-4 min", purpose |-> "Memory Without Recall Pressure"],
      [name |-> "Emotional Reflection", duration |-> "4-5 min", purpose |-> "Identity Support"],
      [name |-> "Gentle Presence",      duration |-> "5-6 min", purpose |-> "No Performance Required"],
      [name |-> "Consistent Closing",   duration |-> "6-7 min", purpose |-> "Trust & Continuity"]>>

\* the value returned for the phases detected
PhaseReport[detected_phases \in Seq(STRING)] ==
    LET all_phase_names == [k \in 1..Len(IDEAL_SESSION_phases) |-> IDEAL_SESSION_phases[k].name]
        missing_phases ==
            SelectSeq(all_phase_names,
                      LAMBDA p : \A k \in 1..Len(detected_phases) : detected_phases[k] # p)
    IN  [follows_structure |-> Len(detected_phases) >= 4,
         detected_phases   |-> detected_phases,
         missing_phases    |-> missing_phases,
         phase_count       |-> Len(detected_phases)]

_analyze_phases(turns) ==
    LET caregiver_turns == CaregiverTurns(turns)
    IN
    IF caregiver_turns = <<>>
    THEN [follows_structure |-> FALSE,
          detected_phases   |-> <<>>,
          missing_phases    |-> IDEAL_SESSION_phases]
    ELSE
    LET first_text == caregiver_turns[1].text_lower
        last_text  == caregiver_turns[Len(caregiver_turns)].text_lower
        arrival     == ContainsAny[first_text, <<"good morning", "good afternoon", "hello", "time for">>]
        orientation == \E k \in 1..Len(FirstThree(caregiver_turns)) :
                           ContainsAny[caregiver_turns[k].text_lower,
                                       <<"today", "at home", "okay", "calm">>]
        familiar    == \E k \in 1..Len(caregiver_turns) :
                           /\ Contains[caregiver_turns[k].text_lower, "you"]
                           /\ ContainsAny[caregiver_turns[k].text_lower,
                                          <<"like", "enjoy", "loved", "always">>]
        reflection  == \E k \in 1..Len(caregiver_turns) :
                           ContainsAny[caregiver_turns[k].text_lower,
                                       <<"sound", "seem", "feel", "care">>]
        closing     == ContainsAny[last_text, <<"thank you", "tomorrow", "next time", "see you">>]
        detected_phases ==
               (IF arrival     THEN <<"Arrival">> ELSE <<>>)
            \o (IF orientation THEN <<"Gentle Orientation">> ELSE <<>>)
            \o (IF familiar    THEN <<"Familiar Thread">> ELSE <<>>)
            \o (IF reflection  THEN <<"Emotional Reflection">> ELSE <<>>)
            \o (IF closing     THEN <<"Consistent Closing">> ELSE <<>>)
    IN  PhaseReport[detected_phases]

(***************************************************************************)
(* ConversationAnalyzer.analyze_conversation                               *)
(***************************************************************************)
\* The result of a step is bound once, as the local variable of the method
\* that holds it is: turns, then principle_scores and violations, then
\* overall_score.
analyze_conversation(conversation_text, caregiver_name, patient_name, dementia_stage, seed) ==
    LET Return(turns, principle_scores, violations, overall_score) ==
            [turn_count          |-> Len(turns),
             conversation_length |-> Len(conversation_text),
             dementia_stage      |-> dementia_stage,
             principle_scores    |-> principle_scores,
             violations          |-> violations,
             strengths           |-> _identify_strengths(turns, dementia_stage, seed),
             recommendations     |-> _generate_recommendations(turns, principle_scores,
                                                               violations, dementia_stage),
             overall_score       |-> overall_score,
             grade               |-> _score_to_grade(overall_score),
             phase_analysis      |-> _analyze_phases(turns)]
        Scored(turns, principle_scores, violations) ==
            CHOOSE result \in
                {Return(turns, principle_scores, violations, overall_score) :
                    overall_score \in {_calculate_overall_score(principle_scores)}} : TRUE
        Parsed(turns) ==
            CHOOSE result \in
                {Scored(turns, principle_scores, violations) :
                    principle_scores \in
                        {[key \in {PrincipleKeys[k] : k \in 1..Len(PrincipleKeys)} |->
                             _score_principle(turns, key, dementia_stage)]},
                    violations \in {_detect_violations(turns, dementia_stage)}} : TRUE
    IN  CHOOSE result \in
            {Parsed(turns) :
                turns \in {_parse_conversation(conversation_text, caregiver_name,
                                               patient_name)}} : TRUE

(***************************************************************************)
(* SafetyAssessmentTool._run (agents/tools.py).  The returned text is one  *)
(* of four fixed templates; it is held as the values of its two header     *)
(* lines and the sequence of its other non-blank lines.                    *)
(***************************************************************************)
crisis_keywords ==
    <<"kill", "die", "suicide", "harm myself", "hurt myself",
      "end it all", "want to die", "better off dead">>

distress_keywords ==
    <<"help me", "scared", "terrified", "can't breathe",
      "chest pain", "can't move", "falling", "emergency">>

agitation_keywords ==
    <<"angry", "frustrated", "leave me alone", "go away",
      "stop", "hate this", "get out">>

CriticalAssessment ==
    [assessment |-> "CRITICAL",
     risk_level |-> "HIGH - IMMEDIATE INTERVENTION REQUIRED",
     body |-> <<"Indicators: Crisis language detected (self-harm/suicidal ideation)",
                "REQUIRED ACTIONS:",
                "1. Immediately notify emergency contacts",
                "2. Engage crisis protocol",
                "3. Do NOT continue normal conversation",
                "4. Provide crisis hotline: 988 (Suicide & Crisis Lifeline)",
                "5. Stay with patient, use calming presence",
                "6. Say: \"I hear that you're in pain. Your safety is important. Help is available.\"">>]

ElevatedAssessment ==
    [assessment |-> "ELEVATED",
     risk_level |-> "MODERATE - REQUIRES ATTENTION",
     body |-> <<"Indicators: Severe distress or potential medical emergency",
                "RECOMMENDED ACTIONS:",
                "1. Alert caregiver immediately",
                "2. Ask gentle clarifying questions",
                "3. Provide reassurance: \"You're safe. Help is here.\"",
                "4. If medical symptoms (chest pain, breathing issues), call 911",
                "5. Remain calm and present">>]

MonitorAssessment ==
    [assessment |-> "MONITOR",
     risk_level |-> "LOW-MODERATE - De-escalation needed",
     body |-> <<"Indicators: Agitation or frustration",
                "RECOMMENDED ACTIONS:",
                "1. Validate feelings: \"I understand you're feeling frustrated\"",
                "2. Offer to end session: \"Would you like to take a break?\"",
                "3. Switch to calming content (music, nature sounds)",
                "4. Give space, reduce stimulation",
                "5. Note in session log for caregiver review">>]

\* an assessment without a tier
UnratedAssessment ==
    [assessment |-> "UNKNOWN",
     risk_level |-> "UNKNOWN",
     body |-> <<>>]

ClearAssessment ==
    [assessment |-> "CLEAR",
     risk_level |-> "NONE - Continue normal interaction",
     body |-> <<"No safety concerns detected. Proceed with compassionate, validating conversation.">>]

\* the tiers checked from the mildest to the gravest
SafetyAssessmentMildestFirst(patient_message, context) ==
    LET message_lower == Lower[patient_message]
    IN  IF ContainsAny[message_lower, agitation_keywords] THEN MonitorAssessment
        ELSE IF ContainsAny[message_lower, distress_keywords] THEN ElevatedAssessment
        ELSE IF ContainsAny[message_lower, crisis_keywords] THEN CriticalAssessment
        ELSE ClearAssessment

SafetyAssessmentTool_run(patient_message, context) ==
    LET message_lower == Lower[patient_message]
    IN  IF ContainsAny[message_lower, crisis_keywords] THEN CriticalAssessment
        ELSE IF ContainsAny[message_lower, distress_keywords] THEN ElevatedAssessment
        ELSE IF ContainsAny[message_lower, agitation_keywords] THEN MonitorAssessment
        ELSE ClearAssessment

(***************************************************************************)
(* CaregiverTrainingService.analyze_training_session: the arguments it     *)
(* passes to analyze_conversation.                                         *)
(***************************************************************************)
\* models.DementiaStage
DementiaStage == {"mild", "moderate", "severe"}

\* a patient record whose dementia_stage column is NULL
NoStage == "None"

\* patient.dementia_stage.value if patient.dementia_stage else "moderate"
ServiceStage(patient_stage) == IF patient_stage # NoStage THEN patient_stage ELSE "moderate"

\* full_name.split()[0]
FirstName(full_name) ==
    LET t == Strip[full_name]
        ends == {i \in 1..Len(t) : IsSpace(CharAt(t, i))}
    IN  IF ends = {} THEN t
        ELSE SubSeq(t, 1, (CHOOSE i \in ends : \A j \in ends : i <= j) - 1)

(***************************************************************************)
(* SafetyMonitor (services/safety_monitor.py) with the keyword lists of    *)
(* Settings (config.py), and MemoryCareAgent.generate_crisis_response.     *)
(***************************************************************************)
\* json.loads(CRISIS_KEYWORDS)
crisis_keywords_list ==
    <<"suicide", "kill myself", "end it all", "want to die", "hurt myself">>

\* json.loads(DISTRESS_KEYWORDS)
distress_keywords_list ==
    <<"fell", "can't breathe", "lost", "pain", "help me", "scared">>

\* the keywords found in the message: keyword.lower() in message.lower()
FoundKeywords(message, keywords) ==
    SelectSeq(keywords, LAMBDA keyword : Contains[Lower[message], Lower[keyword]])

\* found_keywords of _detect_crisis; crisis is detected when it is not empty
_detect_crisis(message) == FoundKeywords(message, crisis_keywords_list)

\* found_keywords of _detect_distress
_detect_distress(message) == FoundKeywords(message, distress_keywords_list)

\* confusion_patterns: each regex is a choice of words joined by \s+, held
\* as the word sequences it stands for
confusion_patterns ==
    <<{<<"people", "in", "my", "house">>},
      {<<"stealing", "my">>, <<"stealing", "from", "me">>},
      {<<who, state>> : who \in {"mother", "father", "spouse"},
                        state \in {"alive", "here", "waiting"}}
          \cup {<<who, "is", state>> : who \in {"mother", "father", "spouse"},
                                      state \in {"alive", "here", "waiting"}},
      {<<"need", "to", place>> : place \in {"work", "job", "office"}}
          \cup {<<"need", "to", "go", place>> : place \in {"work", "job", "office"}},
      {<<"where", "am", "i">>, <<"where", "is", "this">>},
      {<<"who", "are", "you">>}>>

\* the first position from pos on that holds no whitespace character
RECURSIVE SkipSpaces(_, _)
SkipSpaces(text, pos) ==
    IF pos <= Len(text) /\ IsSpace(CharAt(text, pos)) THEN SkipSpaces(text, pos + 1) ELSE pos

\* the words stand at pos, each followed by \s+ and the next
RECURSIVE MatchWordsAt(_, _, _)
MatchWordsAt(text, pos, words) ==
    LET word == Head(words)
        end  == pos + Len(word)
    IN  /\ end - 1 <= Len(text)
        /\ SubSeq(text, pos, end - 1) = word
        /\ \/ Len(words) = 1
           \/ /\ end <= Len(text)
              /\ IsSpace(CharAt(text, end))
              /\ MatchWordsAt(text, SkipSpaces(text, end), Tail(words))

\* re.search(pattern, message_lower) for some pattern of confusion_patterns
_detect_confusion_patterns(message) ==
    \E message_lower \in {Lower[message]} :
        \E k \in 1..Len(confusion_patterns) :
            \E words \in confusion_patterns[k] :
                \E pos \in 1..Len(message_lower) : MatchWordsAt(message_lower, pos, words)

RECURSIVE JoinComma(_)
\* ', '.join(keywords)
JoinComma(keywords) ==
    IF keywords = <<>> THEN ""
    ELSE IF Len(keywords) = 1 THEN keywords[1]
    ELSE keywords[1] \o ", " \o JoinComma(Tail(keywords))

\* AlertSeverity.CRITICAL
CRITICAL == "critical"

\* the SafetyAlert row of _create_crisis_alert, before its notifications
CrisisAlert(trigger_text, keywords) ==
    [alert_type   |-> "crisis",
     severity     |-> CRITICAL,
     title        |-> "Crisis Language Detected",
     description  |-> "Patient used concerning language that may indicate suicide risk "
                          \o "or self-harm. Keywords: " \o JoinComma(keywords),
     trigger_text |-> SubSeq(trigger_text, 1, Min(500, Len(trigger_text))),
     notifications_sent |-> {}]

\* the SafetyAlert row of _create_distress_alert, before its notifications
DistressAlert(trigger_text, keywords) ==
    [alert_type   |-> "distress",
     severity     |-> CRITICAL,
     title        |-> "Distress Detected",
     description  |-> "Patient reported distress or potential injury. Keywords: "
                          \o JoinComma(keywords),
     trigger_text |-> SubSeq(trigger_text, 1, Min(500, Len(trigger_text))),
     notifications_sent |-> {}]

\* a monitor that looks for distress before crisis
AlertsDistressFirst(message) ==
    IF _detect_distress(message) # <<>>
    THEN <<DistressAlert(message, _detect_distress(message))>>
    ELSE IF _detect_crisis(message) # <<>>
    THEN <<CrisisAlert(message, _detect_crisis(message))>>
    ELSE <<>>

\* a monitor that also creates an alert for a message matching a confusion
\* pattern
AlertsOnConfusion(message) ==
    IF _detect_crisis(message) # <<>>
    THEN <<CrisisAlert(message, _detect_crisis(message))>>
    ELSE IF _detect_distress(message) # <<>> \/ _detect_confusion_patterns(message)
    THEN <<DistressAlert(message, _detect_distress(message))>>
    ELSE <<>>

\* the alerts analyze_message creates for a message: the if / elif on
\* crisis_detected and distress_detected; confusion_detected, the result of
\* _detect_confusion_patterns(message), is read by neither
AlertsFor(message) ==
    IF _detect_crisis(message) # <<>>
    THEN <<CrisisAlert(message, _detect_crisis(message))>>
    ELSE IF _detect_distress(message) # <<>>
    THEN <<DistressAlert(message, _detect_distress(message))>>
    ELSE <<>>

\* MemoryCareAgent.generate_crisis_response
generate_crisis_response(crisis_type) ==
    IF crisis_type = "suicide"
    THEN "I'm really concerned about what you just said. You're important, and your safety matters. "
         \o "Please call 911 right now, or let me contact your caregiver immediately. "
         \o "You can also call the National Suicide Prevention Lifeline at 988. "
         \o "I'm here with you. Please reach out for help right now."
    ELSE IF crisis_type = "injury"
    THEN "It sounds like you might be hurt. Your safety is very important. "
         \o "Please call your caregiver right now, or call 911 if you need immediate help. "
         \o "Stay where you are if you can. I'm going to alert your caregiver."
    ELSE IF crisis_type = "lost"
    THEN "I understand you might feel lost. That can be scary. "
         \o "Stay where you are if you can. I'm going to contact your caregiver right now to help you. "
         \o "Can you see anything familiar around you? Are you safe where you are?"
    ELSE "I'm concerned about what you're telling me. I want to make sure you're safe. "
         \o "Let me contact your caregiver right now to help you."

\* the notifications _send_emergency_notifications attempts for a caregiver
\* who is an emergency contact with a phone number: an SMS, then an email
NotificationsAttempted == {"sms", "email"}

\* the fallback of generate_response when the completion fails
FallbackResponse == "I'm having trouble right now. Let me get someone to help you."

(***************************************************************************)
(* SafetyMonitor.check_inactivity (services/safety_monitor.py).  Points of *)
(* time are minutes of datetime.utcnow(); a DateTime column that is NULL   *)
(* holds NoTime.                                                           *)
(***************************************************************************)
NoTime == -1

\* settings.MAX_INACTIVITY_HOURS
MAX_INACTIVITY_HOURS == 12

\* AlertSeverity.WARNING
WARNING == "warning"

\* the rows of caregiver_patient_relationships of the patient, each with the
\* phone number of its caregiver (a User row): the first caregiver manages
\* reminders and is an emergency contact with a phone number, the second
\* does neither
Relationships ==
    <<[caregiver_id |-> 1, can_manage_reminders |-> TRUE, emergency_contact |-> TRUE,
       phone_number |-> "+15550001"],
      [caregiver_id |-> 2, can_manage_reminders |-> FALSE, emergency_contact |-> FALSE,
       phone_number |-> ""]>>

\* the start_time of the first row of the conversations of the patient in
\* the order of start_time.desc(); conversations holds the start times
RECURSIVE LastStart(_)
LastStart(starts) ==
    IF Len(starts) = 1 THEN starts[1] ELSE Max(starts[1], LastStart(Tail(starts)))

\* hours_since_last > settings.MAX_INACTIVITY_HOURS, where hours_since_last
\* is the seconds since start_time divided by 3600
InactiveTooLong(utcnow, start_time) == utcnow - start_time > 60 * MAX_INACTIVITY_HOURS

\* a check that never finds an alert for the inactivity period
NoExistingAlert(alerts, start_time) == FALSE

\* existing_alert: an unresolved inactivity alert created after the start of
\* the last conversation
ExistingAlert(alerts, start_time) ==
    \E k \in 1..Len(alerts) :
        /\ alerts[k].alert_type = "inactivity"
        /\ alerts[k].resolved_at = NoTime
        /\ alerts[k].created_at > start_time

\* the SafetyAlert row of check_inactivity, before its notifications
InactivityAlert(utcnow, start_time) ==
    [alert_type   |-> "inactivity",
     severity     |-> WARNING,
     title        |-> "Extended Inactivity",
     description  |-> "No interaction with system for "
                          \o ToString((utcnow - start_time) \div 60)
                          \o " hours (threshold: " \o ToString(MAX_INACTIVITY_HOURS)
                          \o " hours)",
     created_at   |-> utcnow,
     resolved_at  |-> NoTime,
     notifications_sent |-> {}]

RECURSIVE InactivityEmails(_, _)
\* the emails _send_inactivity_notifications sends for the alert, one for
\* each relationship, in their order
InactivityEmails(relationships, alert_id) ==
    IF relationships = <<>> THEN <<>>
    ELSE <<[channel |-> "email", to |-> Head(relationships).caregiver_id,
            about |-> "inactivity", id |-> alert_id]>>
         \o InactivityEmails(Tail(relationships), alert_id)

(***************************************************************************)
(* ReminderService (services/reminder_service.py): the retries and the     *)
(* escalation of a reminder that is not acknowledged.                      *)
(***************************************************************************)
\* the ids of the rows of the patients table
Patients == {1}

\* the ReminderExecution row of deliver_reminder
DeliveredExecution(utcnow) ==
    [scheduled_time |-> utcnow, delivered_at |-> utcnow, acknowledged_at |-> NoTime,
     retry_count |-> 0, escalated |-> FALSE, escalated_at |-> NoTime,
     status |-> "delivered"]

\* the rows of the query of check_unacknowledged_reminders
Unacknowledged(executions) ==
    {id \in 1..Len(executions) :
        executions[id].status = "delivered" /\ executions[id].acknowledged_at = NoTime}

\* time_since_delivery >= reminder.retry_interval_minutes
RetryDue(utcnow, execution, of_reminder) ==
    utcnow - execution.delivered_at >= of_reminder.retry_interval_minutes

\* a service that retries once more than max_retry_count
CanRetryOnceMore(execution, of_reminder) ==
    execution.retry_count <= of_reminder.max_retry_count

\* execution.retry_count < reminder.max_retry_count
CanRetry(execution, of_reminder) ==
    execution.retry_count < of_reminder.max_retry_count

RECURSIVE EscalationNotifications(_, _)
\* what _escalate_to_caregiver sends for the execution, in order: for each
\* relationship that can manage reminders an email, and an SMS when it is
\* an emergency contact and the caregiver has a phone number
EscalationNotifications(relationships, execution_id) ==
    IF relationships = <<>> THEN <<>>
    ELSE LET rel == Head(relationships)
         IN  (IF rel.can_manage_reminders
              THEN <<[channel |-> "email", to |-> rel.caregiver_id,
                      about |-> "reminder", id |-> execution_id]>>
                   \o (IF rel.emergency_contact /\ rel.phone_number # ""
                       THEN <<[channel |-> "sms", to |-> rel.caregiver_id,
                               about |-> "reminder", id |-> execution_id]>>
                       ELSE <<>>)
              ELSE <<>>)
             \o EscalationNotifications(Tail(relationships), execution_id)

\* the execution as _escalate_to_caregiver marks it
Escalated(execution, utcnow) ==
    [execution EXCEPT !.escalated = TRUE, !.escalated_at = utcnow, !.status = "escalated"]

(***************************************************************************)
(* The inputs of the model.                                                *)
(***************************************************************************)
\* the stage values of the docstring of analyze_conversation
DocumentedStages == {"early", "moderate", "late"}

\* every stage value analyze_conversation is called with
StageValues == DocumentedStages \cup {ServiceStage(ps) : ps \in DementiaStage \cup {NoStage}}

CaregiverNames == {FirstName("Anna Smith")}

PatientNames == {FirstName("Bob Jones")}

\* the transcript lines the model draws from
Lines ==
    {"Anna: Good morning, Mom. It's time for our visit.",
     "Anna: Do you remember our trip to the lake?",
     "Caregiver: We can sit together. Take your time.",
     "Anna: I understand, that sounds hard. Thank you, I'll see you tomorrow.",
     "ANNA: No, actually that's wrong, the nurse said the doctor wants to change the pills "
         \o "and the meals and the exercises so we need to talk about all of it now.",
     "Bob: I want to go home."}

\* the lines of the longer transcripts about testing and invitations
PressureLines ==
    {"Anna: Do you remember our trip to the lake?",
     "Caregiver: We can sit together. Take your time.",
     "Bob: I want to go home."}

\* the lines of the transcripts that are analysed again after a restart
RestartLines ==
    {"Caregiver: We can sit together. Take your time.",
     "Anna: I understand, that sounds hard. Thank you, I'll see you tomorrow."}

\* the lines of the transcripts about the phases of a visit
PhaseLines ==
    {"Anna: Good morning, Mom. It's time for our visit.",
     "Caregiver: It's okay, you always loved the garden.",
     "Anna: I understand, that sounds hard. Thank you, I'll see you tomorrow.",
     "Bob: I want to go home."}

\* the lines of the transcripts about questions and choices
QuestionLines ==
    {"Anna: What? Why? Do you remember?",
     "Anna: Good morning, time for tea?",
     "Caregiver: Tea or coffee or juice? Yes? No?",
     "Bob: What? Why? When?"}

\* the lines of the transcripts about the violation records
ViolationLines ==
    {"Anna: No, actually, don't you remember? Tea or coffee? Or juice?",
     "Anna: Do you remember the lake and the boat and the little house by the water "
         \o "where we stayed every summer when you were young.",
     "Caregiver: We can sit together.",
     "Bob: Do you remember? No, actually that's wrong."}

\* the raw lines and the names of the transcripts given to the parser
ParserLines ==
    {"   ",
     "  pat: Hello  ",
     "Family of patient: fine: thanks",
     "Elder:",
     "Nurse: time",
     "just words"}

ParserCaregiverNames == {"Anna", "Pat"}

ParserPatientNames == {"Pat", "Family of patient"}

RECURSIVE JoinLines(_)
\* "\n".join(lines)
JoinLines(lines) ==
    IF lines = <<>> THEN ""
    ELSE IF Len(lines) = 1 THEN lines[1]
    ELSE lines[1] \o "\n" \o JoinLines(Tail(lines))

\* the transcripts of at most max lines
TranscriptsOf(lines, max) == {JoinLines(ls) : ls \in UNION {[1..n -> lines] : n \in 0..max}}

Transcripts == TranscriptsOf(Lines, MaxLines)

HashSeeds == 0..MaxSeed

MessageParts ==
    {"I'm angry and want to die", "I'm scared, I can't breathe", "I'm so angry, leave me alone",
     "What a nice day", "HELP ME", "The soldier came", "Please STOP", "I am falling"}

RECURSIVE JoinWords(_)
\* " ".join(parts)
JoinWords(parts) ==
    IF parts = <<>> THEN ""
    ELSE IF Len(parts) = 1 THEN parts[1]
    ELSE parts[1] \o " " \o JoinWords(Tail(parts))

\* the contents of the user messages of the live chat
ChatMessages ==
    {"I WANT TO DIE, please help me", "I fell and I am in pain", "I feel Lost",
     "Hello, how are you?", "Who are  you? My mother is waiting.",
     "Where am I? I am scared"}

\* what generate_response returns: a completion, or its fallback
Responses == {"That sounds lovely. Tell me more.", FallbackResponse}

Messages == {JoinWords(ps) : ps \in UNION {[1..n -> MessageParts] : n \in 0..MaxParts}}

(***************************************************************************)
(* The state.                                                              *)
(***************************************************************************)
VARIABLES
    conversation_text,  \* the transcript submitted for analysis
    caregiver_name,     \* the caregiver's first name
    patient_name,       \* the patient's first name
    dementia_stage,     \* the stage passed to analyze_conversation
    hash_seed,          \* the str hash seed of the running interpreter process
    pc,                 \* "idle" until a report has been returned
    report,             \* the report last returned by analyze_conversation
    parsed_turns,       \* the turns last returned by _parse_conversation
    patient_message,    \* the message given to the safety assessment tool
    assessment,         \* the assessments the tool has returned for it
    chat_pc,            \* where conversation_websocket stands in its loop
    received,           \* the contents of the user messages received so far
    immediate_action,   \* what analyze_message returned for the last message:
    alert,              \*   the flag, and the id of the alert (0 for None)
    safety_alerts,      \* the rows of the safety_alerts table
    effects,            \* what handling the last message has done so far, in order
    sent,               \* the messages sent to the patient over the websocket
    conversation_history, \* the history list of the handler
    conversation_turns, \* the rows of the conversation_turns table
    now,                \* datetime.utcnow(), in minutes
    conversations,      \* the start_time of the rows of the conversations table
    notifying,          \* the ids of the alerts _send_inactivity_notifications is at
    notifications,      \* the emails and SMS given to the notification service
    reminder,           \* the row of the reminders table that is followed
    reminder_executions, \* the rows of the reminder_executions table
    escalation          \* what _escalate_to_caregiver has still to send, when it runs

vars == <<conversation_text, caregiver_name, patient_name, dementia_stage, hash_seed,
          pc, report, parsed_turns, patient_message, assessment,
          chat_pc, received, immediate_action, alert, safety_alerts, effects, sent,
          conversation_history, conversation_turns,
          now, conversations, notifying, notifications, reminder, reminder_executions,
          escalation>>

analyzer_vars == <<conversation_text, caregiver_name, patient_name, dementia_stage,
                   hash_seed, pc, report, parsed_turns>>

safety_vars == <<patient_message, assessment>>

chat_vars == <<chat_pc, received, immediate_action, alert, safety_alerts, effects, sent,
               conversation_history, conversation_turns>>

service_vars == <<now, conversations, notifying, notifications, reminder,
                  reminder_executions, escalation>>

\* the message sent when the connection is accepted
WelcomeMessage ==
    [type |-> "assistant_message",
     content |-> "Hello! I'm here to chat with you. How are you feeling today?",
     is_crisis_response |-> FALSE]

\* conversation_websocket at the head of its loop, the welcome message sent
InitChat ==
    /\ chat_pc = "receive"
    /\ received = <<>>
    /\ immediate_action = FALSE
    /\ alert = 0
    /\ safety_alerts = <<>>
    /\ effects = <<>>
    /\ sent = <<WelcomeMessage>>
    /\ conversation_history = <<>>
    /\ conversation_turns = <<>>

\* Reminder(...) with the defaults of create_reminder
DefaultReminder ==
    [patient_id |-> 1, max_retry_count |-> 3, retry_interval_minutes |-> 10,
     escalate_to_caregiver |-> TRUE]

\* no conversation, no reminder execution, no notification yet
InitServices ==
    /\ now = 0
    /\ conversations = <<>>
    /\ notifying = {}
    /\ notifications = <<>>
    /\ reminder = DefaultReminder
    /\ reminder_executions = <<>>
    /\ escalation = <<>>

InitAnalyzer(transcripts, seeds) ==
    /\ conversation_text \in transcripts
    /\ caregiver_name \in CaregiverNames
    /\ patient_name \in PatientNames
    /\ dementia_stage \in StageValues
    /\ hash_seed \in seeds
    /\ pc = "idle"
    /\ report = <<>>
    /\ parsed_turns = <<>>

\* one interpreter process: the seed matters to the order of the strengths
\* only, and the restarts of SpecRestart vary it
Init ==
    /\ InitAnalyzer(Transcripts, {0})
    /\ patient_message = ""
    /\ assessment = <<>>
    /\ InitChat
    /\ InitServices

InitRestart ==
    /\ InitAnalyzer(TranscriptsOf(RestartLines, MaxLines), HashSeeds)
    /\ patient_message = ""
    /\ assessment = <<>>
    /\ InitChat
    /\ InitServices

InitPressure ==
    /\ InitAnalyzer(TranscriptsOf(PressureLines, MaxLines + 1), {0})
    /\ patient_message = ""
    /\ assessment = <<>>
    /\ InitChat
    /\ InitServices

InitPhases ==
    /\ InitAnalyzer(TranscriptsOf(PhaseLines, MaxLines), {0})
    /\ patient_message = ""
    /\ assessment = <<>>
    /\ InitChat
    /\ InitServices

InitQuestions ==
    /\ InitAnalyzer(TranscriptsOf(QuestionLines, MaxLines), {0})
    /\ patient_message = ""
    /\ assessment = <<>>
    /\ InitChat
    /\ InitServices

InitViolations ==
    /\ InitAnalyzer(TranscriptsOf(ViolationLines, MaxLines), {0})
    /\ patient_message = ""
    /\ assessment = <<>>
    /\ InitChat
    /\ InitServices

InitParser ==
    /\ conversation_text \in TranscriptsOf(ParserLines, MaxLines)
    /\ caregiver_name \in ParserCaregiverNames
    /\ patient_name \in ParserPatientNames
    /\ dementia_stage = "moderate"
    /\ hash_seed = 0
    /\ pc = "idle"
    /\ report = <<>>
    /\ parsed_turns = <<>>
    /\ patient_message = ""
    /\ assessment = <<>>
    /\ InitChat
    /\ InitServices

InitLiveChat ==
    /\ conversation_text = ""
    /\ caregiver_name \in CaregiverNames
    /\ patient_name \in PatientNames
    /\ dementia_stage = "moderate"
    /\ hash_seed = 0
    /\ pc = "idle"
    /\ report = <<>>
    /\ parsed_turns = <<>>
    /\ patient_message = ""
    /\ assessment = <<>>
    /\ InitChat
    /\ InitServices

InitSafety ==
    /\ conversation_text = ""
    /\ caregiver_name \in CaregiverNames
    /\ patient_name \in PatientNames
    /\ dementia_stage = "moderate"
    /\ hash_seed = 0
    /\ pc = "idle"
    /\ report = <<>>
    /\ parsed_turns = <<>>
    /\ patient_message \in Messages
    /\ assessment = <<>>
    /\ InitChat
    /\ InitServices

\* a call of analyze_conversation
AnalyzeConversation ==
    /\ pc = "idle"
    /\ report' = analyze_conversation(conversation_text, caregiver_name, patient_name,
                                      dementia_stage, hash_seed)
    /\ pc' = "returned"
    /\ UNCHANGED <<conversation_text, caregiver_name, patient_name, dementia_stage, hash_seed,
                   parsed_turns>>
    /\ UNCHANGED safety_vars
    /\ UNCHANGED chat_vars
    /\ UNCHANGED service_vars

\* a call of _parse_conversation
ParseConversation ==
    /\ pc = "idle"
    /\ parsed_turns' = _parse_conversation(conversation_text, caregiver_name, patient_name)
    /\ pc' = "parsed"
    /\ UNCHANGED <<conversation_text, caregiver_name, patient_name, dementia_stage, hash_seed,
                   report>>
    /\ UNCHANGED safety_vars
    /\ UNCHANGED chat_vars
    /\ UNCHANGED service_vars

\* the server process is restarted and the same request is made again: the
\* new interpreter has drawn a new hash seed
RestartInterpreter ==
    /\ pc = "returned"
    /\ \E seed \in HashSeeds \ {hash_seed} : hash_seed' = seed
    /\ pc' = "idle"
    /\ UNCHANGED <<conversation_text, caregiver_name, patient_name, dementia_stage, report,
                   parsed_turns>>
    /\ UNCHANGED safety_vars
    /\ UNCHANGED chat_vars
    /\ UNCHANGED service_vars

\* a call of the safety assessment tool: the agent may call it again on the
\* same message
AssessSafety ==
    /\ Len(assessment) < MaxCalls
    /\ assessment' = Append(assessment, SafetyAssessmentTool_run(patient_message, ""))
    /\ UNCHANGED patient_message
    /\ UNCHANGED analyzer_vars
    /\ UNCHANGED chat_vars
    /\ UNCHANGED service_vars

(***************************************************************************)
(* conversation_websocket (main.py): the loop that handles the messages of *)
(* one connection, with SafetyMonitor.analyze_message in it.               *)
(***************************************************************************)
\* the content of the message being handled
user_message == received[Len(received)]

\* a handler that never takes the crisis branch
NeverCrisisPath == FALSE

\* if immediate_action and alert
CrisisPath == immediate_action /\ alert # 0

\* receive_json() returns a message of type user_message
ReceiveUserMessage ==
    /\ chat_pc = "receive"
    /\ Len(received) < MaxMessages
    /\ \E content \in ChatMessages : received' = Append(received, content)
    /\ effects' = <<>>
    /\ chat_pc' = "analyze"
    /\ UNCHANGED <<immediate_action, alert, safety_alerts, sent, conversation_history,
                   conversation_turns>>
    /\ UNCHANGED <<analyzer_vars, safety_vars, service_vars>>

\* analyze_message up to the commit of the alert it creates, or to its return
\* when it creates none
AnalyzeMessage ==
    /\ chat_pc = "analyze"
    /\ IF AlertsFor(user_message) # <<>>
       THEN /\ safety_alerts' = safety_alerts \o AlertsFor(user_message)
            /\ effects' = Append(effects, "alert_persisted")
            /\ chat_pc' = "notify"
            /\ UNCHANGED <<immediate_action, alert>>
       ELSE /\ immediate_action' = FALSE
            /\ alert' = 0
            /\ chat_pc' = "respond"
            /\ UNCHANGED <<safety_alerts, effects>>
    /\ UNCHANGED <<received, sent, conversation_history, conversation_turns>>
    /\ UNCHANGED <<analyzer_vars, safety_vars, service_vars>>

\* _send_emergency_notifications, and the return of analyze_message: every
\* notification is attempted, the gateways decide which of them are sent
SendEmergencyNotifications ==
    /\ chat_pc = "notify"
    /\ \E delivered \in SUBSET NotificationsAttempted :
           safety_alerts' = [safety_alerts EXCEPT
                                ![Len(safety_alerts)].notifications_sent = delivered]
    /\ effects' = Append(effects, "notifications_attempted")
    /\ immediate_action' = TRUE
    /\ alert' = Len(safety_alerts)
    /\ chat_pc' = "respond"
    /\ UNCHANGED <<received, sent, conversation_history, conversation_turns>>
    /\ UNCHANGED <<analyzer_vars, safety_vars, service_vars>>

\* the crisis branch: the crisis response is generated and sent, the two
\* turns are logged, and the loop continues
SendCrisisResponse ==
    /\ chat_pc = "respond"
    /\ CrisisPath
    /\ LET crisis_response == generate_crisis_response(safety_alerts[alert].alert_type)
       IN  /\ sent' = Append(sent, [type |-> "assistant_message",
                                    content |-> crisis_response,
                                    is_crisis_response |-> TRUE])
           /\ conversation_turns' = conversation_turns \o
                  <<[turn_number |-> Len(conversation_history), speaker |-> "patient",
                     text |-> user_message, contains_crisis_keyword |-> TRUE],
                    [turn_number |-> Len(conversation_history) + 1, speaker |-> "assistant",
                     text |-> crisis_response, contains_crisis_keyword |-> FALSE]>>
    /\ effects' = Append(effects, "crisis_response_sent")
    /\ chat_pc' = "receive"
    /\ UNCHANGED <<received, immediate_action, alert, safety_alerts, conversation_history>>
    /\ UNCHANGED <<analyzer_vars, safety_vars, service_vars>>

\* memory_rag.get_context_for_conversation returns
RetrieveMemories ==
    /\ chat_pc = "respond"
    /\ ~CrisisPath
    /\ effects' = Append(effects, "memory_retrieval")
    /\ chat_pc' = "generate"
    /\ UNCHANGED <<received, immediate_action, alert, safety_alerts, sent,
                   conversation_history, conversation_turns>>
    /\ UNCHANGED <<analyzer_vars, safety_vars, service_vars>>

\* memory_rag.get_context_for_conversation raises: the handler reports the
\* error and ends
RetrievalFails ==
    /\ chat_pc = "respond"
    /\ ~CrisisPath
    /\ effects' = Append(effects, "memory_retrieval")
    /\ sent' = Append(sent, [type |-> "error", content |-> "error",
                             is_crisis_response |-> FALSE])
    /\ chat_pc' = "closed"
    /\ UNCHANGED <<received, immediate_action, alert, safety_alerts,
                   conversation_history, conversation_turns>>
    /\ UNCHANGED <<analyzer_vars, safety_vars, service_vars>>

\* generate_response returns, the response is sent, the history is updated
\* and the two turns are logged
GenerateResponse ==
    /\ chat_pc = "generate"
    /\ \E response \in Responses :
           /\ sent' = Append(sent, [type |-> "assistant_message", content |-> response,
                                    is_crisis_response |-> FALSE])
           /\ conversation_history' = conversation_history \o
                  <<[role |-> "user", content |-> user_message],
                    [role |-> "assistant", content |-> response]>>
           /\ conversation_turns' = conversation_turns \o
                  <<[turn_number |-> Len(conversation_history) + 1, speaker |-> "patient",
                     text |-> user_message, contains_crisis_keyword |-> FALSE],
                    [turn_number |-> Len(conversation_history) + 2, speaker |-> "assistant",
                     text |-> response, contains_crisis_keyword |-> FALSE]>>
    /\ effects' = effects \o <<"generate_response", "response_sent">>
    /\ chat_pc' = "receive"
    /\ UNCHANGED <<received, immediate_action, alert, safety_alerts>>
    /\ UNCHANGED <<analyzer_vars, safety_vars, service_vars>>

\* receive_json() returns a message of type end_conversation
EndConversation ==
    /\ chat_pc = "receive"
    /\ sent' = Append(sent, [type |-> "conversation_ended", content |-> "",
                             is_crisis_response |-> FALSE])
    /\ chat_pc' = "closed"
    /\ UNCHANGED <<received, immediate_action, alert, safety_alerts, effects,
                   conversation_history, conversation_turns>>
    /\ UNCHANGED <<analyzer_vars, safety_vars, service_vars>>

\* receive_json() raises WebSocketDisconnect
Disconnect ==
    /\ chat_pc = "receive"
    /\ chat_pc' = "disconnected"
    /\ UNCHANGED <<received, immediate_action, alert, safety_alerts, effects, sent,
                   conversation_history, conversation_turns>>
    /\ UNCHANGED <<analyzer_vars, safety_vars, service_vars>>

NextLiveChat ==
    \/ ReceiveUserMessage
    \/ AnalyzeMessage
    \/ SendEmergencyNotifications
    \/ SendCrisisResponse
    \/ RetrieveMemories
    \/ RetrievalFails
    \/ GenerateResponse
    \/ EndConversation
    \/ Disconnect

SpecLiveChat == InitLiveChat /\ [][NextLiveChat]_vars

(***************************************************************************)
(* The inactivity check: check_inactivity is called for the patient from   *)
(* time to time, while the patient starts conversations and caregivers     *)
(* resolve alerts.                                                         *)
(***************************************************************************)
InitInactivity ==
    /\ conversation_text = ""
    /\ caregiver_name \in CaregiverNames
    /\ patient_name \in PatientNames
    /\ dementia_stage = "moderate"
    /\ hash_seed = 0
    /\ pc = "idle"
    /\ report = <<>>
    /\ parsed_turns = <<>>
    /\ patient_message = ""
    /\ assessment = <<>>
    /\ InitChat
    /\ InitServices

\* six or thirteen hours pass
HoursPass ==
    /\ \E hours \in {6, 13} :
           /\ now + 60 * hours <= 60 * MaxHours
           /\ now' = now + 60 * hours
    /\ UNCHANGED <<conversations, notifying, notifications, reminder, reminder_executions,
                   escalation>>
    /\ UNCHANGED <<analyzer_vars, safety_vars, chat_vars>>

\* conversation_websocket creates the Conversation row of a new connection
StartConversation ==
    /\ Len(conversations) < MaxConversations
    /\ conversations' = Append(conversations, now)
    /\ UNCHANGED <<now, notifying, notifications, reminder, reminder_executions, escalation>>
    /\ UNCHANGED <<analyzer_vars, safety_vars, chat_vars>>

\* resolve_alert (routes/caregiver_routes.py) for an alert of the patient
\* that is not resolved yet (resolving it again only moves resolved_at)
ResolveAlert ==
    /\ \E alert_id \in 1..Len(safety_alerts) :
           /\ safety_alerts[alert_id].resolved_at = NoTime
           /\ safety_alerts' = [safety_alerts EXCEPT ![alert_id].resolved_at = now]
    /\ UNCHANGED <<chat_pc, received, immediate_action, alert, effects, sent,
                   conversation_history, conversation_turns>>
    /\ UNCHANGED <<analyzer_vars, safety_vars, service_vars>>

\* check_inactivity up to its return, or to the commit of the alert it
\* creates, after which it sends the notifications
CheckInactivity ==
    /\ Len(safety_alerts) < MaxAlerts
    /\ IF conversations = <<>>
       THEN UNCHANGED <<safety_alerts, notifying>>
       ELSE LET start_time == LastStart(conversations)
            IN  IF /\ InactiveTooLong(now, start_time)
                   /\ ~ExistingAlert(safety_alerts, start_time)
                THEN /\ safety_alerts' = Append(safety_alerts, InactivityAlert(now, start_time))
                     /\ notifying' = notifying \cup {Len(safety_alerts) + 1}
                ELSE UNCHANGED <<safety_alerts, notifying>>
    /\ UNCHANGED <<chat_pc, received, immediate_action, alert, effects, sent,
                   conversation_history, conversation_turns>>
    /\ UNCHANGED <<now, conversations, notifications, reminder, reminder_executions,
                   escalation>>
    /\ UNCHANGED <<analyzer_vars, safety_vars>>

\* _send_inactivity_notifications: an email to the caregiver of every
\* relationship; the emails that were sent are recorded in the alert
SendInactivityNotifications ==
    /\ \E alert_id \in notifying :
           /\ notifications' = notifications \o InactivityEmails(Relationships, alert_id)
           /\ \E email_sent \in SUBSET {Relationships[k].caregiver_id :
                                            k \in 1..Len(Relationships)} :
                  safety_alerts' = [safety_alerts EXCEPT
                                       ![alert_id].notifications_sent = email_sent]
           /\ notifying' = notifying \ {alert_id}
    /\ UNCHANGED <<chat_pc, received, immediate_action, alert, effects, sent,
                   conversation_history, conversation_turns>>
    /\ UNCHANGED <<now, conversations, reminder, reminder_executions, escalation>>
    /\ UNCHANGED <<analyzer_vars, safety_vars>>

NextInactivity ==
    \/ HoursPass
    \/ StartConversation
    \/ ResolveAlert
    \/ CheckInactivity
    \/ SendInactivityNotifications

SpecInactivity == InitInactivity /\ [][NextInactivity]_vars

(***************************************************************************)
(* The reminder that is followed: it is delivered once, the patient may    *)
(* acknowledge it at any time, and check_unacknowledged_reminders runs     *)
(* periodically, one run after the other.                                  *)
(***************************************************************************)
\* the reminders that are followed; patient 2 has no row any more
ReminderChoices ==
    [patient_id : {1, 2}, max_retry_count : 0..2, retry_interval_minutes : 1..2,
     escalate_to_caregiver : BOOLEAN]

InitReminders ==
    /\ conversation_text = ""
    /\ caregiver_name \in CaregiverNames
    /\ patient_name \in PatientNames
    /\ dementia_stage = "moderate"
    /\ hash_seed = 0
    /\ pc = "idle"
    /\ report = <<>>
    /\ parsed_turns = <<>>
    /\ patient_message = ""
    /\ assessment = <<>>
    /\ InitChat
    /\ now = 0
    /\ conversations = <<>>
    /\ notifying = {}
    /\ notifications = <<>>
    /\ reminder \in ReminderChoices
    /\ reminder_executions = <<>>
    /\ escalation = <<>>

\* a minute passes
MinutePasses ==
    /\ now < MaxMinutes
    /\ now' = now + 1
    /\ UNCHANGED <<conversations, notifying, notifications, reminder, reminder_executions,
                   escalation>>
    /\ UNCHANGED <<analyzer_vars, safety_vars, chat_vars>>

\* deliver_reminder for the reminder, when it is due
DeliverReminder ==
    /\ reminder_executions = <<>>
    /\ reminder_executions' = <<DeliveredExecution(now)>>
    /\ UNCHANGED <<now, conversations, notifying, notifications, reminder, escalation>>
    /\ UNCHANGED <<analyzer_vars, safety_vars, chat_vars>>

\* acknowledge_reminder for an execution that exists
AcknowledgeReminder ==
    /\ \E execution_id \in 1..Len(reminder_executions) :
           reminder_executions' =
               [reminder_executions EXCEPT ![execution_id].acknowledged_at = now,
                                           ![execution_id].status = "acknowledged"]
    /\ UNCHANGED <<now, conversations, notifying, notifications, reminder, escalation>>
    /\ UNCHANGED <<analyzer_vars, safety_vars, chat_vars>>

\* a run of check_unacknowledged_reminders, up to its end or to the first
\* await of _escalate_to_caregiver; the run before it has ended
CheckUnacknowledgedReminders ==
    /\ escalation = <<>>
    /\ IF Unacknowledged(reminder_executions) = {}
       THEN UNCHANGED <<reminder_executions, escalation>>
       ELSE LET execution_id == CHOOSE id \in Unacknowledged(reminder_executions) : TRUE
                execution    == reminder_executions[execution_id]
            IN  IF ~RetryDue(now, execution, reminder)
                THEN UNCHANGED <<reminder_executions, escalation>>
                ELSE IF CanRetry(execution, reminder)
                THEN /\ reminder_executions' =
                            [reminder_executions EXCEPT
                                ![execution_id].retry_count = execution.retry_count + 1,
                                ![execution_id].delivered_at = now]
                     /\ UNCHANGED escalation
                ELSE IF reminder.escalate_to_caregiver /\ ~execution.escalated
                THEN IF reminder.patient_id \notin Patients
                     THEN UNCHANGED <<reminder_executions, escalation>>
                     ELSE IF EscalationNotifications(Relationships, execution_id) = <<>>
                     THEN /\ reminder_executions' =
                                 [reminder_executions EXCEPT
                                     ![execution_id] = Escalated(execution, now)]
                          /\ UNCHANGED escalation
                     ELSE /\ escalation' = EscalationNotifications(Relationships,
                                                                    execution_id)
                          /\ UNCHANGED reminder_executions
                ELSE /\ reminder_executions' =
                            [reminder_executions EXCEPT ![execution_id].status = "missed"]
                     /\ UNCHANGED escalation
    /\ UNCHANGED <<now, conversations, notifying, notifications, reminder>>
    /\ UNCHANGED <<analyzer_vars, safety_vars, chat_vars>>

\* the send _escalate_to_caregiver awaits returns: it goes on to the next
\* one, or it marks the execution as escalated and commits
SendEscalationNotification ==
    /\ escalation # <<>>
    /\ notifications' = Append(notifications, Head(escalation))
    /\ escalation' = Tail(escalation)
    /\ IF Len(escalation) = 1
       THEN reminder_executions' =
                [reminder_executions EXCEPT
                    ![Head(escalation).id] = Escalated(reminder_executions[Head(escalation).id],
                                                       now)]
       ELSE UNCHANGED reminder_executions
    /\ UNCHANGED <<now, conversations, notifying, reminder>>
    /\ UNCHANGED <<analyzer_vars, safety_vars, chat_vars>>

NextReminders ==
    \/ MinutePasses
    \/ DeliverReminder
    \/ AcknowledgeReminder
    \/ CheckUnacknowledgedReminders
    \/ SendEscalationNotification

SpecReminders == InitReminders /\ [][NextReminders]_vars

Next == AnalyzeConversation

Spec == Init /\ [][Next]_vars

SpecPressure == InitPressure /\ [][Next]_vars

SpecPhases == InitPhases /\ [][Next]_vars

SpecQuestions == InitQuestions /\ [][Next]_vars

SpecViolations == InitViolations /\ [][Next]_vars

NextRestart == AnalyzeConversation \/ RestartInterpreter

SpecRestart == InitRestart /\ [][NextRestart]_vars

NextParser == ParseConversation

SpecParser == InitParser /\ [][NextParser]_vars

NextSafety == AssessSafety

SpecSafety == InitSafety /\ [][NextSafety]_vars

(***************************************************************************)
(* What the properties below read from a state.                            *)
(***************************************************************************)
Returned == pc = "returned"

\* the turns of the submitted transcript
SubmittedTurns == _parse_conversation(conversation_text, caregiver_name, patient_name)

\* its turns attributed to the caregiver
SubmittedCaregiverTurns == SelectSeq(SubmittedTurns, LAMBDA t : t.speaker = "caregiver")

ScoreOf(key) == report.principle_scores[key].score

\* the number of caregiver turns matching a testing pattern
TestingTurns ==
    CountTurns(SubmittedCaregiverTurns, LAMBDA t : MatchesTestingPattern(t.text_lower))

\* the number of caregiver turns holding an invitation phrase
InvitationTurns ==
    CountTurns(SubmittedCaregiverTurns, LAMBDA t : ContainsAny[t.text_lower, invitation_phrases])

(***************************************************************************)
(* Properties of the principle scores and of the overall score.            *)
(***************************************************************************)
\* C1: every one of the four principle scores of a returned report lies in
\* [0,1], and when no caregiver turn matches a testing pattern and three or
\* more caregiver turns hold an invitation phrase (unclamped 1.05), the
\* presence_over_performance score is exactly 1.0.
C1_ScoresClamped ==
    Returned =>
        /\ \A k \in 1..Len(PrincipleKeys) :
               /\ FLeq[FromInt(0), ScoreOf(PrincipleKeys[k])]
               /\ FLeq[ScoreOf(PrincipleKeys[k]), FromInt(1)]
        /\ (TestingTurns = 0 /\ InvitationTurns >= 3)
               => ScoreOf("presence_over_performance") = FromInt(1)

\* a report for a transcript without testing and with three invitation turns
C1_Witness ==
    /\ Returned
    /\ TestingTurns = 0
    /\ InvitationTurns >= 3
    /\ ScoreOf("presence_over_performance") = FromInt(1)

\* 100 times the weighted sum of the four scores with the weights 25/100,
\* 30/100, 25/100 and 20/100, computed exactly (no rounding) in limbs
ExactWeightedHundredths ==
    Carry[[k \in 1..6 |->   25 * ScoreOf("ritual_over_stimulation")[k]
                          + 30 * ScoreOf("emotion_over_accuracy")[k]
                          + 25 * ScoreOf("presence_over_performance")[k]
                          + 20 * ScoreOf("short_steady_repeatable")[k]]]

\* C2: overall_score (in hundredths) is the weighted sum of the four scores
\* rounded to two decimals: the nearest hundredth, and either neighbour
\* when the sum is within 2^-12 of a hundredth of the midpoint; it lies in
\* [0,1]; and the grade is A from 0.90, B from 0.80, C from 0.70, D from
\* 0.60 and F below, applied to the rounded score.
C2_OverallAndGrade ==
    Returned =>
        LET h == report.overall_score
            T == ExactWeightedHundredths
        IN  /\ h \in 0..100
            /\ T[2] < 2047 => h = T[1]
            /\ T[2] > 2048 => h = T[1] + 1
            /\ h \in {T[1], T[1] + 1}
            /\ report.grade = (CASE h >= 90 -> "A"
                                 [] h >= 80 /\ h < 90 -> "B"
                                 [] h >= 70 /\ h < 80 -> "C"
                                 [] h >= 60 /\ h < 70 -> "D"
                                 [] h < 60 -> "F")

\* a report whose weighted sum is not a whole number of hundredths and is
\* rounded up across a grade threshold
C2_Witness ==
    /\ Returned
    /\ ExactWeightedHundredths[2] > 2048
    /\ report.overall_score = ExactWeightedHundredths[1] + 1
    /\ report.overall_score \in {60, 70, 80, 90}

(***************************************************************************)
(* Properties of the safety assessment.                                    *)
(***************************************************************************)
\* the message holds, in any letter case, a keyword of the list
HasKeyword(keywords) ==
    \E k \in 1..Len(keywords) : Contains[Lower[patient_message], keywords[k]]

\* the tier and the risk word of an assessment
Rated(a, tier, risk) == a.assessment = tier /\ StartsWith[a.risk_level, risk \o " - "]

\* C3: the tiers are checked in the order crisis, distress, agitation: a
\* message with a crisis keyword is always rated CRITICAL / HIGH whatever
\* distress or agitation keywords it also holds, and a message with a
\* distress keyword and no crisis keyword is always rated ELEVATED /
\* MODERATE whatever agitation keywords it also holds.
C3_TierPriority ==
    \A k \in 1..Len(assessment) :
        /\ HasKeyword(crisis_keywords) => Rated(assessment[k], "CRITICAL", "HIGH")
        /\ (HasKeyword(distress_keywords) /\ ~HasKeyword(crisis_keywords))
               => Rated(assessment[k], "ELEVATED", "MODERATE")

\* an assessed message holding keywords of all three tiers
C3_Witness ==
    /\ assessment # <<>>
    /\ HasKeyword(crisis_keywords)
    /\ HasKeyword(distress_keywords)
    /\ HasKeyword(agitation_keywords)
    /\ Rated(assessment[1], "CRITICAL", "HIGH")

\* C4: the assessment is total: a call on any message, the empty one
\* included, returns, and what it returns is one of the four tiers with
\* its fixed risk level (CRITICAL - HIGH, ELEVATED - MODERATE, MONITOR -
\* LOW-MODERATE, CLEAR - NONE); a message with no keyword of any tier is
\* rated CLEAR / NONE; every CRITICAL assessment lists the 988 hotline
\* among its actions.
C4_AssessmentTotal ==
    /\ Len(assessment) < MaxCalls => ENABLED AssessSafety
    /\ \A k \in 1..Len(assessment) :
        /\ \/ Rated(assessment[k], "CRITICAL", "HIGH")
           \/ Rated(assessment[k], "ELEVATED", "MODERATE")
           \/ Rated(assessment[k], "MONITOR", "LOW-MODERATE")
           \/ Rated(assessment[k], "CLEAR", "NONE")
        /\ (/\ ~HasKeyword(crisis_keywords)
            /\ ~HasKeyword(distress_keywords)
            /\ ~HasKeyword(agitation_keywords))
               => Rated(assessment[k], "CLEAR", "NONE")
        /\ assessment[k].assessment = "CRITICAL"
               => \E n \in 1..Len(assessment[k].body) :
                      /\ Contains[assessment[k].body[n], "988"]
                      /\ n > 2

\* the empty message has been assessed and is rated CLEAR / NONE
C4_Witness ==
    /\ patient_message = ""
    /\ assessment # <<>>
    /\ Rated(assessment[1], "CLEAR", "NONE")

(***************************************************************************)
(* Properties of the report.                                               *)
(***************************************************************************)
\* C5: analyze_conversation is deterministic: a call with the transcript,
\* names and stage of an earlier call returns the report of that call,
\* every list of it in the same order.
C5_Deterministic == [][(AnalyzeConversation /\ report # <<>>) => report' = report]_vars

\* the number of recommendations of category stage_specific
StageSpecificCount ==
    Cardinality({k \in 1..Len(report.recommendations) :
                    report.recommendations[k].category = "stage_specific"})

\* C6: whatever stage value analyze_conversation is called with, the values
\* analyze_training_session takes from the patient record included, the
\* recommendations hold exactly one of category stage_specific.
C6_OneStageSpecific == Returned => StageSpecificCount = 1

\* the positions of 'Stop Testing Memory' in the recommendations
StopTestingPositions ==
    {k \in 1..Len(report.recommendations) :
        report.recommendations[k].title = "Stop Testing Memory"}

\* the number of violations of high severity in the report
HighViolationCount ==
    Cardinality({k \in 1..Len(report.violations) : report.violations[k].severity = "high"})

\* C7: when the violations hold at least one of high severity, the first
\* recommendation is 'Stop Testing Memory' with priority immediate and
\* category critical and it occurs exactly once; when they hold none of
\* high severity it does not occur.
C7_StopTestingFirstOnce ==
    Returned =>
        IF HighViolationCount >= 1
        THEN /\ report.recommendations # <<>>
             /\ report.recommendations[1].title = "Stop Testing Memory"
             /\ report.recommendations[1].priority = "immediate"
             /\ report.recommendations[1].category = "critical"
             /\ StopTestingPositions = {1}
        ELSE StopTestingPositions = {}

\* a report with several high-severity violations, of both types
C7_Witness ==
    /\ Returned
    /\ HighViolationCount >= 2
    /\ \E k \in 1..Len(report.violations) : report.violations[k].type = "memory_testing"
    /\ \E k \in 1..Len(report.violations) : report.violations[k].type = "correction"
    /\ StopTestingPositions = {1}

\* C8: the recommendations are never empty, and 'Structure Your Visit'
\* occurs in them only as their sole element.
C8_GeneralOnlyAlone ==
    Returned =>
        /\ report.recommendations # <<>>
        /\ \A k \in 1..Len(report.recommendations) :
               report.recommendations[k].title = "Structure Your Visit"
                   => Len(report.recommendations) = 1

\* a report whose only recommendation is 'Structure Your Visit'
C8_Witness ==
    /\ Returned
    /\ Len(report.recommendations) = 1
    /\ report.recommendations[1].title = "Structure Your Visit"
    /\ report.recommendations[1].category = "improvement"

\* no turn of the submitted transcript is attributed to the caregiver
NoCaregiverTurn == SubmittedCaregiverTurns = <<>>

ReportKeys ==
    {"overall_score", "grade", "principle_scores", "violations", "strengths",
     "recommendations", "phase_analysis", "turn_count", "conversation_length",
     "dementia_stage"}

\* C9: for a transcript with no caregiver turn, the empty one included,
\* the value of the call is defined and is a complete report, and the
\* report returned scores ritual_over_stimulation 0 with the evidence 'No
\* caregiver statements detected' and scores short_steady_repeatable 0.
C9_NoCaregiverTurn ==
    NoCaregiverTurn =>
        /\ pc = "idle" =>
               DOMAIN analyze_conversation(conversation_text, caregiver_name, patient_name,
                                           dementia_stage, hash_seed) = ReportKeys
        /\ Returned =>
            /\ DOMAIN report = ReportKeys
            /\ DOMAIN report.principle_scores = {PrincipleKeys[k] : k \in 1..Len(PrincipleKeys)}
            /\ ScoreOf("ritual_over_stimulation") = FromInt(0)
            /\ report.principle_scores["ritual_over_stimulation"].evidence
                   = <<"No caregiver statements detected">>
            /\ ScoreOf("short_steady_repeatable") = FromInt(0)
            /\ {"follows_structure", "detected_phases", "missing_phases"}
                   \subseteq DOMAIN report.phase_analysis

\* a report for a non-empty transcript in which only the patient speaks
C9_Witness ==
    /\ Returned
    /\ NoCaregiverTurn
    /\ SubmittedTurns # <<>>
    /\ ScoreOf("ritual_over_stimulation") = FromInt(0)

\* the caregiver turns holding 'do you remember' between word boundaries,
\* in any letter case
DoYouRememberTurns ==
    LET turns == SubmittedCaregiverTurns
    IN  {i \in 1..Len(turns) : SearchWord[Lower[turns[i].text], "do you remember"]}

\* C10: when a caregiver turn holds 'do you remember' as whole words in any
\* letter case, the report has a memory_testing violation of severity high
\* for that turn, presence_over_performance is at most 0.80, and the first
\* recommendation is 'Stop Testing Memory' with priority immediate; when no
\* caregiver turn matches a testing pattern, presence_over_performance is
\* at least 0.90.
C10_DoYouRemember ==
    Returned =>
        /\ \A i \in DoYouRememberTurns :
               \E k \in 1..Len(report.violations) :
                   /\ report.violations[k].type = "memory_testing"
                   /\ report.violations[k].severity = "high"
                   /\ report.violations[k].turn_number = i
                   /\ StartsWith[SubmittedCaregiverTurns[i].text, report.violations[k].text]
        /\ DoYouRememberTurns # {} =>
               /\ FLeq[ScoreOf("presence_over_performance"), Lit[80, 100]]
               /\ report.recommendations # <<>>
               /\ report.recommendations[1].title = "Stop Testing Memory"
               /\ report.recommendations[1].priority = "immediate"
        /\ TestingTurns = 0 => FLeq[Lit[90, 100], ScoreOf("presence_over_performance")]

\* a report for a transcript in which a caregiver turn after the first one
\* asks 'Do you remember' and three invitations bring the score to 0.80
C10_Witness ==
    /\ Returned
    /\ DoYouRememberTurns # {}
    /\ 1 \notin DoYouRememberTurns
    /\ InvitationTurns >= 3
    /\ ScoreOf("presence_over_performance") = Lit[80, 100]
    /\ report.recommendations[1].title = "Stop Testing Memory"

(***************************************************************************)
(* Properties of the phases and of the ritual score.                       *)
(***************************************************************************)
\* the first caregiver turn greets with 'good morning' and holds a structure
\* token, and the last caregiver turn holds a closing token
GreetsAndCloses ==
    LET turns == SubmittedCaregiverTurns
    IN  /\ turns # <<>>
        /\ Contains[Lower[turns[1].text], "good morning"]
        /\ ContainsAny[Lower[turns[1].text], <<"time for", "visit">>]
        /\ ContainsAny[Lower[turns[Len(turns)].text],
                       <<"thank you", "see you", "tomorrow", "next time">>]

\* the phase name is among the detected phases of the report
Detected(name) ==
    \E k \in 1..Len(report.phase_analysis.detected_phases) :
        report.phase_analysis.detected_phases[k] = name

\* C11: when the first caregiver turn holds 'good morning' and a structure
\* token ('time for' or 'visit') and the last caregiver turn holds a closing
\* token, the phases Arrival and Consistent Closing are detected and
\* ritual_over_stimulation is at least 0.9, whatever the turns in between.
C11_GreetingAndClosing ==
    (Returned /\ GreetsAndCloses) =>
        /\ Detected("Arrival")
        /\ Detected("Consistent Closing")
        /\ FLeq[Lit[9, 10], ScoreOf("ritual_over_stimulation")]

\* a report for a transcript of three caregiver turns, the first a greeting,
\* the last a closing, with a turn of neither kind in between
C11_Witness ==
    /\ Returned
    /\ GreetsAndCloses
    /\ Len(SubmittedCaregiverTurns) = 3
    /\ ~ContainsAny[Lower[SubmittedCaregiverTurns[2].text],
                    <<"good morning", "thank you", "see you", "tomorrow", "next time">>]
    /\ Detected("Arrival")
    /\ Detected("Consistent Closing")

(***************************************************************************)
(* Properties of the violations.                                           *)
(***************************************************************************)
\* the positions in the violations of those of the type for caregiver turn i
ViolationsOfTurn(type, i) ==
    {k \in 1..Len(report.violations) :
        report.violations[k].type = type /\ report.violations[k].turn_number = i}

\* the number of '?' characters of a text
QuestionMarks(text) == Cardinality({j \in 1..Len(text) : CharAt(text, j) = "?"})

\* C12: a caregiver turn holding three or more '?' has exactly one
\* too_many_questions violation, of severity medium and with the number of
\* the turn, whatever other violations the turn has; a caregiver turn with
\* fewer than three '?' has none.
C12_TooManyQuestions ==
    Returned =>
        LET turns == SubmittedCaregiverTurns
        IN  /\ \A i \in 1..Len(turns) :
                   /\ QuestionMarks(turns[i].text) >= 3
                          => Cardinality(ViolationsOfTurn("too_many_questions", i)) = 1
                   /\ QuestionMarks(turns[i].text) < 3
                          => ViolationsOfTurn("too_many_questions", i) = {}
            /\ \A k \in 1..Len(report.violations) :
                   report.violations[k].type = "too_many_questions"
                       => /\ report.violations[k].severity = "medium"
                          /\ report.violations[k].turn_number \in 1..Len(turns)

\* a report in which the second caregiver turn holds three '?' and has a
\* violation of another type as well
C12_Witness ==
    /\ Returned
    /\ Len(SubmittedCaregiverTurns) >= 2
    /\ QuestionMarks(SubmittedCaregiverTurns[2].text) >= 3
    /\ Cardinality(ViolationsOfTurn("too_many_questions", 2)) = 1
    /\ ViolationsOfTurn("memory_testing", 2) # {}
    /\ QuestionMarks(SubmittedCaregiverTurns[1].text) < 3

\* the number of occurrences of the word in the text, in any letter case,
\* between characters that are not word characters
WordOccurrences(text, word) ==
    LET t == Lower[text]
    IN  Cardinality({j \in 1..(Len(t) - Len(word) + 1) :
                        /\ SubSeq(t, j, j + Len(word) - 1) = word
                        /\ (j = 1 \/ ~IsWordChar(CharAt(t, j - 1)))
                        /\ (j + Len(word) - 1 = Len(t) \/ ~IsWordChar(CharAt(t, j + Len(word))))})

\* C13: a caregiver turn has a too_many_choices violation, of severity
\* medium, exactly when the word 'or' occurs in it at least twice; the
\* letters 'or' inside other words ('morning', 'for') are not counted.
C13_ChoicesByWord ==
    Returned =>
        LET turns == SubmittedCaregiverTurns
        IN  /\ \A i \in 1..Len(turns) :
                   ViolationsOfTurn("too_many_choices", i) # {}
                       <=> WordOccurrences(turns[i].text, "or") >= 2
            /\ \A k \in 1..Len(report.violations) :
                   report.violations[k].type = "too_many_choices"
                       => report.violations[k].severity = "medium"

(***************************************************************************)
(* Properties of the parser.                                               *)
(***************************************************************************)
Parsed == pc = "parsed"

\* the positions at which a line of the submitted transcript starts
LineStarts ==
    {1} \cup {j + 1 : j \in {i \in 1..Len(conversation_text) :
                                 CharAt(conversation_text, i) = "\n"}}

\* the line that starts at position a, without its line feed
LineAt(a) ==
    LET ends == {j \in a..Len(conversation_text) : CharAt(conversation_text, j) = "\n"}
    IN  IF ends = {} THEN SubSeq(conversation_text, a, Len(conversation_text))
        ELSE SubSeq(conversation_text, a, (CHOOSE j \in ends : \A i \in ends : j <= i) - 1)

\* the line holds a character that is not white space
NonBlank(line) == \E j \in 1..Len(line) : ~IsSpace(CharAt(line, j))

\* the starts of the lines that are non-empty after trimming
NonBlankStarts == {a \in LineStarts : NonBlank(LineAt(a))}

\* the rank of such a line among them, in the order of the transcript
Rank(a) == Cardinality({b \in NonBlankStarts : b <= a})

\* str.endswith(suffix)
EndsWith(s, p) == Len(p) <= Len(s) /\ SubSeq(s, Len(s) - Len(p) + 1, Len(s)) = p

\* C14: _parse_conversation returns for every transcript text, and what it
\* returns holds exactly one turn for each line that is non-empty after
\* trimming, in the order of the lines (the text of the k-th turn is the end
\* of the k-th such line and its speaker is caregiver, patient or unknown);
\* an empty or whitespace-only transcript yields the empty sequence.
C14_OneTurnPerLine ==
    /\ pc = "idle" => ENABLED ParseConversation
    /\ Parsed =>
        /\ Len(parsed_turns) = Cardinality(NonBlankStarts)
        /\ \A a \in NonBlankStarts :
               /\ EndsWith(Strip[LineAt(a)], parsed_turns[Rank(a)].text)
               /\ parsed_turns[Rank(a)].speaker \in {"caregiver", "patient", "unknown"}
               /\ parsed_turns[Rank(a)].text_lower = Lower[parsed_turns[Rank(a)].text]
        /\ ~NonBlank(conversation_text) => parsed_turns = <<>>

\* the turns of a transcript with a blank line between two lines of
\* different speakers, the second one without a recognisable speaker
C14_Witness ==
    /\ Parsed
    /\ Cardinality(LineStarts) = 3
    /\ Len(parsed_turns) = 2
    /\ parsed_turns[1].speaker # "unknown"
    /\ parsed_turns[2].speaker = "unknown"
    /\ parsed_turns[2].text = "just words"

\* the speaker and the text the precedence of the parser gives a trimmed line
Classified(line) ==
    LET colons == {j \in 1..Len(line) : CharAt(line, j) = ":"}
        first  == CHOOSE j \in colons : \A i \in colons : j <= i
        label  == Lower[SubSeq(line, 1, first - 1)]
    IN  IF StartsWith[Lower[line], Lower[caregiver_name] \o ":"]
        THEN [speaker |-> "caregiver"]
        ELSE IF StartsWith[Lower[line], Lower[patient_name] \o ":"]
        THEN [speaker |-> "patient"]
        ELSE IF colons # {}
        THEN [speaker |-> IF Contains[label, "caregiver"] \/ Contains[label, "family"]
                              THEN "caregiver"
                          ELSE IF Contains[label, "patient"] \/ Contains[label, "elder"]
                              THEN "patient"
                          ELSE "unknown"]
        ELSE [speaker |-> "unknown", text |-> line]

\* C15: the speaker of a turn follows a fixed precedence: the caregiver's
\* name and a colon at the start of the line, in any letter case, make a
\* caregiver turn even when the patient's name or a generic label matches
\* too; else the patient's name and a colon make a patient turn; else, for
\* a line with a colon, the label before the first colon makes it caregiver
\* when it holds 'caregiver' or 'family', else patient when it holds
\* 'patient' or 'elder', else unknown; a line without a colon is an unknown
\* turn whose text is the whole line.
C15_SpeakerPrecedence ==
    Parsed =>
        \A a \in NonBlankStarts :
            LET expected == Classified(Strip[LineAt(a)])
                turn     == parsed_turns[Rank(a)]
            IN  /\ Rank(a) <= Len(parsed_turns)
                /\ turn.speaker = expected.speaker
                /\ "text" \in DOMAIN expected => turn.text = expected.text

\* the turns of a transcript in which the caregiver's name is the patient's
\* name too, a line starts with it, and a generic label holds a word of the
\* caregiver and a word of the patient
C15_Witness ==
    /\ Parsed
    /\ caregiver_name = patient_name
    /\ Len(parsed_turns) = 3
    /\ StartsWith[Lower[Strip[LineAt(1)]], Lower[caregiver_name] \o ":"]
    /\ parsed_turns[1].speaker = "caregiver"
    /\ parsed_turns[1].text = "Hello"
    /\ parsed_turns[2].speaker = "caregiver"
    /\ parsed_turns[2].text = "fine: thanks"
    /\ parsed_turns[3] = [speaker |-> "unknown", text |-> "just words", text_lower |-> "just words"]

(***************************************************************************)
(* Properties of the phase analysis.                                       *)
(***************************************************************************)
\* the names of the six phases of the ideal session, in their order
PhaseNames == [k \in 1..Len(IDEAL_SESSION_phases) |-> IDEAL_SESSION_phases[k].name]

\* the position of a phase name in the ideal session, 0 for any other value
PhaseIndex(name) ==
    IF \E k \in 1..Len(PhaseNames) : PhaseNames[k] = name
    THEN CHOOSE k \in 1..Len(PhaseNames) : PhaseNames[k] = name
    ELSE 0

\* equality of two values that may be of different kinds (a list of names
\* and a list of phase objects), decided on their printed forms
SameValue(a, b) == ToString(a) = ToString(b)

\* C16: detected_phases lists phase names in the order of the ideal session
\* without repetition, missing_phases is exactly the list of the six phase
\* names that are not detected (all six names when there is no caregiver
\* turn), and follows_structure is true exactly when four or more phases
\* are detected.
C16_PhasesReport ==
    Returned =>
        LET detected == report.phase_analysis.detected_phases
            missing  == report.phase_analysis.missing_phases
        IN  /\ \A k \in 1..Len(detected) : PhaseIndex(detected[k]) > 0
            /\ \A j, k \in 1..Len(detected) :
                   j < k => PhaseIndex(detected[j]) < PhaseIndex(detected[k])
            /\ SameValue(missing, SelectSeq(PhaseNames, LAMBDA name : ~Detected(name)))
            /\ report.phase_analysis.follows_structure <=> Len(detected) >= 4

\* the phase is reported in missing_phases, by its name or, in the report for
\* a transcript without caregiver turn, by its phase object
ReportedMissing(name) ==
    \E k \in 1..Len(report.phase_analysis.missing_phases) :
        \/ SameValue(report.phase_analysis.missing_phases[k], name)
        \/ Contains[ToString(report.phase_analysis.missing_phases[k]),
                    "name |-> " \o ToString(name)]

\* C19: 'Gentle Presence' is never among the detected phases and is always
\* reported in missing_phases; at most five of the six phases are detected.
C19_GentlePresenceMissing ==
    Returned =>
        /\ ~Detected("Gentle Presence")
        /\ ReportedMissing("Gentle Presence")
        /\ Len(report.phase_analysis.detected_phases) <= 5

\* a report in which the five other phases are detected
C19_Witness ==
    /\ Returned
    /\ Len(report.phase_analysis.detected_phases) = 5
    /\ report.phase_analysis.follows_structure
    /\ SameValue(report.phase_analysis.missing_phases, <<"Gentle Presence">>)

(***************************************************************************)
(* Properties of the recommendations for low scores.                       *)
(***************************************************************************)
\* the title of the canned recommendation of every principle
PrincipleTitles ==
    <<"Create Predictable Ritual", "Validate Feelings, Not Facts",
      "Remove All Pressure", "Keep It Brief">>

\* the positions of a title in the recommendations
PositionsOf(title) ==
    {n \in 1..Len(report.recommendations) : report.recommendations[n].title = title}

\* C20: the canned recommendation of a principle is in the recommendations
\* exactly when the score of the principle is strictly below 0.6 (a score of
\* exactly 0.6 gives none), once; these recommendations come in the order
\* of the principles (ritual, emotion, presence, brevity), after 'Stop
\* Testing Memory' when it is present and before the stage-specific one.
C20_LowScoreRecommendations ==
    Returned =>
        /\ \A k \in 1..Len(PrincipleKeys) :
               IF FLess[ScoreOf(PrincipleKeys[k]), Lit[6, 10]]
               THEN Cardinality(PositionsOf(PrincipleTitles[k])) = 1
               ELSE PositionsOf(PrincipleTitles[k]) = {}
        /\ \A j, k \in 1..Len(PrincipleKeys) :
               j < k => \A m \in PositionsOf(PrincipleTitles[j]) :
                           \A n \in PositionsOf(PrincipleTitles[k]) : m < n
        /\ \A k \in 1..Len(PrincipleKeys) :
               \A n \in PositionsOf(PrincipleTitles[k]) :
                   /\ \A m \in StopTestingPositions : m < n
                   /\ \A m \in 1..Len(report.recommendations) :
                          report.recommendations[m].category = "stage_specific" => n < m

\* a report with 'Stop Testing Memory', the recommendations of two
\* principles, a stage-specific recommendation, and a principle whose score
\* of exactly 0.6 has none
C20_Witness ==
    /\ Returned
    /\ StopTestingPositions = {1}
    /\ StageSpecificCount = 1
    /\ Cardinality({k \in 1..Len(PrincipleKeys) : PositionsOf(PrincipleTitles[k]) # {}}) >= 2
    /\ \E k \in 1..Len(PrincipleKeys) :
           /\ ScoreOf(PrincipleKeys[k]) = Lit[6, 10]
           /\ PositionsOf(PrincipleTitles[k]) = {}

(***************************************************************************)
(* Properties of the live chat loop and of its safety monitor.             *)
(***************************************************************************)
\* analyze_message has returned for the last message received
Monitored == received # <<>> /\ chat_pc \notin {"analyze", "notify"}

\* the monitor reported immediate action with an alert for it
MonitorReportsAction == immediate_action /\ alert > 0

\* the four canned crisis responses
CrisisResponses ==
    {generate_crisis_response(crisis_type) : crisis_type \in {"suicide", "injury", "lost", ""}}

\* the replies sent after the welcome message
Replies == Tail(sent)

\* C17: for a user message for which the safety monitor reports immediate
\* action with an alert, the alert is persisted and the notifications of the
\* caregivers are attempted before any reply is sent, the reply sent is the
\* crisis response, and neither memory retrieval nor response generation is
\* invoked; for every other user message the normal path runs: memory
\* retrieval, then response generation, then the reply.
C17_CrisisShortCircuit ==
    Monitored =>
        IF MonitorReportsAction
        THEN /\ alert \in 1..Len(safety_alerts)
             /\ safety_alerts[alert].trigger_text = received[Len(received)]
             /\ chat_pc \in {"respond", "receive", "closed", "disconnected"}
             /\ chat_pc = "respond" =>
                    /\ effects = <<"alert_persisted", "notifications_attempted">>
                    /\ Len(Replies) = Len(received) - 1
             /\ chat_pc # "respond" =>
                    /\ effects = <<"alert_persisted", "notifications_attempted",
                                   "crisis_response_sent">>
                    /\ Len(Replies) >= Len(received)
                    /\ Replies[Len(received)].is_crisis_response
                    /\ Replies[Len(received)].content \in CrisisResponses
        ELSE /\ chat_pc = "respond" => effects = <<>>
             /\ chat_pc = "generate" => effects = <<"memory_retrieval">>
             /\ chat_pc = "receive" =>
                    /\ effects = <<"memory_retrieval", "generate_response", "response_sent">>
                    /\ Len(Replies) = Len(received)
                    /\ ~Replies[Len(received)].is_crisis_response
                    /\ Replies[Len(received)].content \in Responses
             /\ effects # <<>> => effects[1] = "memory_retrieval"

\* a connection on which a message was answered on the normal path and the
\* next one, for which the monitor reported immediate action, was answered
\* with the crisis response
C17_Witness ==
    /\ chat_pc = "receive"
    /\ Len(received) = 2
    /\ MonitorReportsAction
    /\ conversation_history # <<>>
    /\ ~Replies[1].is_crisis_response
    /\ Replies[2].is_crisis_response
    /\ effects = <<"alert_persisted", "notifications_attempted", "crisis_response_sent">>

\* a keyword of the list occurs in the message, in any letter case
Occurs(keywords, message) ==
    \E k \in 1..Len(keywords) : Contains[Lower[message], Lower[keywords[k]]]

\* a message for which an alert is due
AlertDue(message) ==
    Occurs(crisis_keywords_list, message) \/ Occurs(distress_keywords_list, message)

\* C18: analyze_message creates at most one alert per message: of type
\* crisis whenever a crisis keyword occurs, distress keywords or not, of
\* type distress when only distress keywords occur, none otherwise; both
\* have severity CRITICAL; immediate_action is true exactly when an alert
\* was created.
C18_OneAlertPerMessage ==
    /\ Len(safety_alerts) =
           Cardinality({k \in 1..Len(received) :
                           /\ AlertDue(received[k])
                           /\ (k < Len(received) \/ chat_pc # "analyze")})
    /\ \A k \in 1..Len(safety_alerts) : safety_alerts[k].severity = "critical"
    /\ Monitored =>
           LET message == received[Len(received)]
           IN  /\ immediate_action <=> alert # 0
               /\ alert # 0 =>
                      /\ alert = Len(safety_alerts)
                      /\ safety_alerts[alert].trigger_text = message
               /\ Occurs(crisis_keywords_list, message)
                      => alert # 0 /\ safety_alerts[alert].alert_type = "crisis"
               /\ (Occurs(distress_keywords_list, message)
                       /\ ~Occurs(crisis_keywords_list, message))
                      => alert # 0 /\ safety_alerts[alert].alert_type = "distress"
               /\ ~AlertDue(message) => alert = 0

\* the monitor has returned for a message holding a crisis keyword and a
\* distress keyword, after a message for which it created a distress alert
C18_Witness ==
    /\ chat_pc = "respond"
    /\ Len(received) = 2
    /\ Occurs(crisis_keywords_list, received[2])
    /\ Occurs(distress_keywords_list, received[2])
    /\ Len(safety_alerts) = 2
    /\ safety_alerts[1].alert_type = "distress"
    /\ safety_alerts[2].alert_type = "crisis"
    /\ immediate_action


(***************************************************************************)
(* Properties of the violation records.                                    *)
(***************************************************************************)
\* the place of a violation type in the order of the checks of a turn
TypeRank(type) ==
    CASE type = "memory_testing"     -> 1
      [] type = "correction"         -> 2
      [] type = "too_many_choices"   -> 3
      [] type = "too_many_questions" -> 4
      [] OTHER                       -> 0

\* the types of the violations recorded for caregiver turn i
TypesOfTurn(i) ==
    {report.violations[k].type :
        k \in {j \in 1..Len(report.violations) : report.violations[j].turn_number = i}}

\* C21: every violation has a turn_number that is a 1-based index into the
\* caregiver turns (not into all turns), a text excerpt of at most 100
\* characters, which is the start of that caregiver turn, severity high
\* exactly for memory_testing and correction and medium exactly for
\* too_many_choices and too_many_questions; the violations are in scan order
\* (by turn, and within a turn in the order of the four checks), and equal
\* caregiver turns each get their own violations (no deduplication).
C21_ViolationRecords ==
    Returned =>
        \A turns \in {SubmittedCaregiverTurns}, v \in {report.violations} :
            /\ \A k \in 1..Len(v) :
                   /\ v[k].turn_number \in 1..Len(turns)
                   /\ Len(v[k].text) <= 100
                   /\ v[k].text = SubSeq(turns[v[k].turn_number].text, 1, Len(v[k].text))
                   /\ Len(v[k].text) = 100 \/ v[k].text = turns[v[k].turn_number].text
                   /\ TypeRank(v[k].type) # 0
                   /\ v[k].severity = "high" <=> v[k].type \in {"memory_testing", "correction"}
                   /\ v[k].severity = "medium"
                          <=> v[k].type \in {"too_many_choices", "too_many_questions"}
            /\ \A k \in 1..(Len(v) - 1) :
                   \/ v[k].turn_number < v[k + 1].turn_number
                   \/ /\ v[k].turn_number = v[k + 1].turn_number
                      /\ TypeRank(v[k].type) < TypeRank(v[k + 1].type)
            /\ \A i, j \in 1..Len(turns) :
                   turns[i].text = turns[j].text => TypesOfTurn(i) = TypesOfTurn(j)

\* a report for a transcript in which a patient turn comes before the
\* caregiver turns: the first caregiver turn has a violation of each of the
\* four types, the second is longer than 100 characters and its violation
\* holds the first 100
C21_Witness ==
    /\ Returned
    /\ Len(SubmittedTurns) > Len(SubmittedCaregiverTurns)
    /\ SubmittedTurns[1].speaker = "patient"
    /\ Len(SubmittedCaregiverTurns) = 2
    /\ Len(SubmittedCaregiverTurns[2].text) > 100
    /\ \E k \in 1..Len(report.violations) :
           /\ report.violations[k].turn_number = 2
           /\ Len(report.violations[k].text) = 100
    /\ Cardinality(TypesOfTurn(1)) = 4


(***************************************************************************)
(* Properties of the emotion-over-accuracy score.                          *)
(***************************************************************************)
\* the number of validation phrases found in the caregiver turns: a turn
\* counts once for each phrase of the list it holds
ValidationPhrasesFound(turns) ==
    Cardinality({p \in (1..Len(turns)) \X (1..Len(validation_phrases)) :
                    Contains[turns[p[1]].text_lower, validation_phrases[p[2]]]})

\* C22: the emotion-over-accuracy score adds min(0.2, 0.1 x count) to its
\* base, where count is the number of validation phrases found across all
\* caregiver turns, so one turn holding two distinct phrases earns +0.2 as
\* two turns holding one phrase each do; without any phrase it subtracts
\* 0.15.  (The part for the corrections is as the scorer computes it.)
C22_ValidationBonus ==
    Returned =>
        \A turns \in {SubmittedCaregiverTurns} :
            LET count == ValidationPhrasesFound(turns)
                correction_count ==
                    CountTurns(turns, LAMBDA t : ContainsAny[t.text_lower, correction_phrases])
                s1 == IF count > 0
                      THEN FAdd[Lit[7, 10], FMin[Lit[2, 10], FMulInt[count, Lit[1, 10]]]]
                      ELSE FSub[Lit[7, 10], Lit[15, 100]]
                s2 == IF correction_count > 0
                      THEN FSub[s1, FMin[Lit[3, 10], FMulInt[correction_count, Lit[15, 100]]]]
                      ELSE FAdd[s1, Lit[1, 10]]
            IN  ScoreOf("emotion_over_accuracy") = Clamp(s2)


(***************************************************************************)
(* Properties of the agreement of the parts of a report on memory testing. *)
(***************************************************************************)
\* the report holds a violation of type memory_testing
HasMemoryTestingViolation ==
    \E k \in 1..Len(report.violations) : report.violations[k].type = "memory_testing"

\* C25: a report with a memory_testing violation has a presence score that
\* counted a testing question: its evidence never holds 'No testing or
\* memory quizzes'.
C25_ViolationAndPresenceAgree ==
    (Returned /\ HasMemoryTestingViolation) =>
        \A evidence \in {report.principle_scores["presence_over_performance"].evidence} :
            \A k \in 1..Len(evidence) : evidence[k] # "[+] No testing or memory quizzes"

\* C26: a report with a memory_testing violation does not list 'Avoided
\* testing memory' among the strengths.
C26_ViolationAndStrengthsAgree ==
    (Returned /\ HasMemoryTestingViolation) =>
        \A k \in 1..Len(report.strengths) : report.strengths[k] # "Avoided testing memory"


(***************************************************************************)
(* Properties of the turns logged and of the replies of the live chat.     *)
(***************************************************************************)
\* C27: the ConversationTurn rows of one connection have turn numbers that
\* increase in the order in which the turns were logged, so they are
\* pairwise distinct, whatever mix of normal and alert-triggering messages
\* was received.
C27_TurnNumbersIncrease ==
    \A i, j \in 1..Len(conversation_turns) :
        i < j => conversation_turns[i].turn_number < conversation_turns[j].turn_number

\* the crisis branch has just answered the last message
CrisisAnswered ==
    /\ chat_pc = "receive"
    /\ effects # <<>>
    /\ effects[Len(effects)] = "crisis_response_sent"

\* C28: a message that triggers a crisis alert is answered with the crisis
\* response about suicide, which names the 988 lifeline and 911; a message
\* that triggers a distress alert with the response about injury; the
\* generic response is used for other alert types only.
C28_CrisisResponseByAlertType ==
    CrisisAnswered =>
        LET reply == sent[Len(sent)].content
            type  == safety_alerts[alert].alert_type
        IN  /\ type = "crisis"
                   => /\ reply = generate_crisis_response("suicide")
                      /\ Contains[reply, "988"] /\ Contains[reply, "911"]
            /\ type = "distress" => reply = generate_crisis_response("injury")
            /\ reply = generate_crisis_response("") => type \notin {"crisis", "distress"}

\* a message that matches a confusion pattern and holds no crisis or
\* distress keyword
ConfusionOnly(message) == _detect_confusion_patterns(message) /\ ~AlertDue(message)

\* the messages a patient can send that match a confusion pattern and hold no
\* crisis or distress keyword
ConfusionOnlyMessages == {message \in ChatMessages : ConfusionOnly(message)}

\* the fields of the rows the handling of a message writes
AlertFields ==
    {"alert_type", "severity", "title", "description", "trigger_text", "notifications_sent"}

TurnFields == {"turn_number", "speaker", "text", "contains_crisis_keyword"}

\* C29: a match of a confusion pattern changes nothing of what
\* analyze_message does: for a message that matches one and holds no crisis
\* or distress keyword no alert is created, immediate_action is false, no
\* row gets a confusion flag, and the loop answers on the normal path, by
\* memory retrieval and response generation.
C29_ConfusionHasNoEffect ==
    /\ \A k \in 1..Len(safety_alerts) :
           /\ safety_alerts[k].trigger_text \notin ConfusionOnlyMessages
           /\ DOMAIN safety_alerts[k] = AlertFields
    /\ \A k \in 1..Len(conversation_turns) :
           /\ DOMAIN conversation_turns[k] = TurnFields
           /\ conversation_turns[k].text \in ConfusionOnlyMessages
                  => ~conversation_turns[k].contains_crisis_keyword
    /\ (Monitored /\ user_message \in ConfusionOnlyMessages) =>
           /\ ~immediate_action
           /\ alert = 0
           /\ ~CrisisPath
           /\ chat_pc = "generate" => effects = <<"memory_retrieval">>
           /\ chat_pc = "receive" =>
                  /\ effects = <<"memory_retrieval", "generate_response", "response_sent">>
                  /\ ~Replies[Len(Replies)].is_crisis_response
                  /\ Replies[Len(Replies)].content \in Responses
                  /\ conversation_turns[Len(conversation_turns) - 1].text = user_message

\* a connection on which a message was answered with the crisis response
\* and the next one, which matches a confusion pattern and holds no keyword,
\* was answered on the normal path
C29_Witness ==
    /\ chat_pc = "receive"
    /\ Len(received) = 2
    /\ AlertDue(received[1])
    /\ ConfusionOnly(received[2])
    /\ Len(safety_alerts) = 1
    /\ Replies[1].is_crisis_response
    /\ ~Replies[2].is_crisis_response
    /\ effects = <<"memory_retrieval", "generate_response", "response_sent">>


(***************************************************************************)
(* Properties of the inactivity check.                                     *)
(***************************************************************************)
\* the step creates an inactivity alert
CreatesInactivityAlert ==
    /\ Len(safety_alerts') = Len(safety_alerts) + 1
    /\ safety_alerts'[Len(safety_alerts')].alert_type = "inactivity"

\* since the alert was created it was resolved, or a conversation started
PeriodEnded(a) ==
    \/ a.resolved_at # NoTime
    \/ \E c \in 1..Len(conversations) : conversations[c] >= a.created_at

\* C23: check_inactivity creates an inactivity alert only for a patient with
\* a conversation whose last conversation started more than
\* MAX_INACTIVITY_HOURS ago, and only when, since every earlier inactivity
\* alert was created, a conversation started or that alert was resolved: over
\* calls with neither, at most one alert is created; and the caregivers are
\* notified of an alert once, each by one email.
C23_OneInactivityAlert ==
    [][/\ CreatesInactivityAlert =>
              /\ conversations # <<>>
              /\ now - LastStart(conversations) > 60 * MAX_INACTIVITY_HOURS
              /\ \A k \in 1..Len(safety_alerts) :
                     safety_alerts[k].alert_type = "inactivity" => PeriodEnded(safety_alerts[k])
       /\ Len(notifications') > Len(notifications) =>
              \A i \in (Len(notifications) + 1)..Len(notifications') :
                  /\ notifications'[i].id \in 1..Len(safety_alerts)
                  /\ \A j \in 1..Len(notifications') :
                         (/\ notifications'[j].id = notifications'[i].id
                          /\ notifications'[j].to = notifications'[i].to) => j = i
      ]_vars

\* two inactivity alerts, the caregivers notified of each: the first was
\* resolved, the second was created thirteen hours or more after the patient
\* started another conversation
C23_Witness ==
    /\ Len(safety_alerts) = 2
    /\ safety_alerts[1].resolved_at # NoTime
    /\ Len(conversations) = 2
    /\ conversations[2] >= safety_alerts[1].created_at
    /\ safety_alerts[2].created_at > conversations[2] + 60 * MAX_INACTIVITY_HOURS
    /\ notifying = {}
    /\ Len(notifications) = 2 * Len(Relationships)


(***************************************************************************)
(* Properties of the reminders.                                            *)
(***************************************************************************)
\* C30: an execution the patient has acknowledged is not escalated or
\* missed afterwards: no execution with an acknowledged_at has the status
\* escalated or missed, also when acknowledge_reminder ran while
\* _escalate_to_caregiver awaited a send for the execution.
C30_AcknowledgedStays ==
    \A id \in 1..Len(reminder_executions) :
        reminder_executions[id].acknowledged_at # NoTime
            => reminder_executions[id].status \notin {"escalated", "missed"}

\* C24: over the runs of check_unacknowledged_reminders on an execution that
\* is delivered and not acknowledged, retry_count grows by one, and only
\* when a retry interval has elapsed since the last delivery, and never
\* exceeds max_retry_count; the execution leaves the status delivered only
\* with retry_count at max_retry_count, for escalated when
\* escalate_to_caregiver is set and for missed otherwise; and no caregiver
\* is sent the same notification of an execution twice.
C24_RetriesThenEscalation ==
    /\ [](/\ \A id \in 1..Len(reminder_executions) :
               LET execution == reminder_executions[id]
               IN  /\ execution.retry_count <= reminder.max_retry_count
                   /\ execution.status \in {"escalated", "missed"} =>
                          /\ execution.retry_count = reminder.max_retry_count
                          /\ execution.status = "escalated" <=> reminder.escalate_to_caregiver
           /\ \A i, j \in 1..Len(notifications) :
                  notifications[i] = notifications[j] => i = j)
    /\ [][\A id \in 1..Len(reminder_executions) :
              LET execution == reminder_executions[id]
                  after     == reminder_executions'[id]
              IN  /\ after.retry_count # execution.retry_count =>
                         /\ after.retry_count = execution.retry_count + 1
                         /\ now - execution.delivered_at >= reminder.retry_interval_minutes
                         /\ after.delivered_at = now
                         /\ execution.status = "delivered"
                         /\ execution.acknowledged_at = NoTime
                  /\ (execution.status = "delivered" /\ after.status \in {"escalated", "missed"})
                         => /\ execution.retry_count = reminder.max_retry_count
                            /\ now - execution.delivered_at >= reminder.retry_interval_minutes
         ]_vars

\* an execution that was never acknowledged, retried twice and then
\* escalated, the caregiver notified by an email and an SMS
C24_Witness ==
    /\ Len(reminder_executions) = 1
    /\ reminder.max_retry_count = 2
    /\ reminder_executions[1].retry_count = 2
    /\ reminder_executions[1].status = "escalated"
    /\ reminder_executions[1].acknowledged_at = NoTime
    /\ Len(notifications) = 2

====
